---- MODULE Spec2Model ----
(***************************************************************************)
(* Model of the daily flag challenge engine of FlagApp (Django backend):   *)
(*   flags/models.py   DailyChallenge, DifficultyTierState,                *)
(*                     TierShownCountry, Question, UserAnswer              *)
(*   flags/views.py    DailyChallengeView, DailyChallengeAnswerView        *)
(*   users/models.py   UserStats                                           *)
(* The database tables are the state.  A request handler is a process that *)
(* advances one ORM query at a time (Django runs in autocommit mode, every *)
(* query is its own transaction), so handlers interleave between queries.  *)
(***************************************************************************)
EXTENDS Integers, Sequences, FiniteSets, TLC

\* ---------------------------------------------------------------- bounds
NumCountries == 2
NumProcs == 2
NumUsers == 1
MaxDay == 2
MaxCalls == 5
RaceRequests == 3
SeqRequests == 2
SubmitRequests == 3
MaxTextLen == 2
MaxStreak == 2
MaxOutcomes == 4

\* ------------------------------------------------------ program constants
MAX_DAILY_ATTEMPTS == 3

\* A null column / Python None for integer-valued things (ids start at 1).
None == 0

Procs == 1..NumProcs
Users == 1..NumUsers
\* The first day of a run follows the days a full catalog cycle takes, so
\* that a stored date is never the null date.
FirstDay == NumCountries + 1
LastDay == NumCountries + MaxDay
Days == FirstDay..LastDay

\* ------------------------------------------------------------- the catalog
\* Country rows: the primary keys 1..NumCountries.  The catalog is loaded by a
\* management command and is read-only for the engine.
Countries == 1..NumCountries

UpperOf == <<"A", "B", "C", "D", "E">>
LowerOf == <<"a", "b", "c", "d", "e">>

\* Country.name: a capitalised two-letter word, one per country.
CountryName(c) == <<UpperOf[c], LowerOf[c]>>

\* Country.code
CountryCode(c) == <<"code", c>>

\* Country.difficulty_tier of a country as load_countries stores it: the
\* loader sets no difficulty_tier and the field has no default, so the column
\* is NULL for every country.
InitialTier(c) == "NULL"

Tiers == {"default", "easy", "hard"}

VARIABLES
  now,          \* timezone.now().date()
  tierOf,       \* table flags_country, column difficulty_tier: by country id
  tierStates,   \* table flags_difficultytierstate: sequence of rows, id = index
  shown,        \* table flags_tiershowncountry: set of <<tier_state_id, country_id>>
  challenges,   \* table flags_dailychallenge: sequence of rows, id = index
  questions,    \* table flags_question: sequence of rows, id = index
  answers,      \* table flags_useranswer: sequence of rows, in insertion order
  stats,        \* table users_userstats: user -> row, or NoStats
  pc,           \* per handler: the query it will run next
  loc,          \* per handler: its local variables
  selLog,       \* history: what direct select_next_country calls returned
  streakLog,    \* history: the update_daily_streak calls made, in order
  nreq,         \* history: number of requests started
  judge         \* the two-question judging harness of SpecJudge

db == <<tierStates, shown, challenges, questions, answers, stats>>
vars == <<now, tierOf, tierStates, shown, challenges, questions, answers, stats,
          pc, loc, selLog, streakLog, nreq, judge>>

\* Country.difficulty_tier
DifficultyTier(c) == tierOf[c]

\* ------------------------------------------------------------ local state
\* An unsaved / absent DifficultyTierState object.
NoTs == [id |-> None, tier |-> "default", user |-> None, cycle_number |-> 0,
         cycle_start_date |-> None, last_selection_date |-> None]

\* An absent UserStats object.
NoStats == [exists |-> FALSE, total_correct |-> 0, current_streak |-> 0,
            longest_streak |-> 0, last_guess_date |-> None,
            incorrect_countries |-> <<>>]

NoResp == [status |-> 0]

InitLoc == [op |-> "none", user |-> None, payload |-> "none", text |-> <<>>,
            today |-> None,
            ts |-> NoTs, reset |-> FALSE, country |-> None,
            challenge |-> None, created |-> FALSE, question |-> None,
            attempts_used |-> 0, has_correct |-> FALSE, is_correct |-> FALSE,
            explanation |-> <<>>, attempt_number |-> 0, st |-> NoStats,
            resp |-> NoResp,
            pre |-> [n |-> 0, stats |-> <<>>, challenges |-> {}, shown |-> {},
                     ts |-> NoTs]]

\* The handler has answered: its working variables go out of scope; what the
\* request was, what it resolved and what it answered remain.
Answered(l, resp) ==
  [InitLoc EXCEPT !.op = l.op, !.user = l.user, !.payload = l.payload,
                  !.text = l.text, !.today = l.today,
                  !.challenge = l.challenge, !.question = l.question,
                  !.pre = l.pre, !.resp = resp]

\* The in-memory model instance of row id of flags_difficultytierstate.
LoadTs(id) == [id |-> id, tier |-> tierStates[id].tier, user |-> tierStates[id].user,
               cycle_number |-> tierStates[id].cycle_number,
               cycle_start_date |-> tierStates[id].cycle_start_date,
               last_selection_date |-> tierStates[id].last_selection_date]

\* Model.save() of a DifficultyTierState: an UPDATE of every column of the row.
SaveTs(ts) == [tierStates EXCEPT ![ts.id] =
                 [tier |-> ts.tier, user |-> ts.user,
                  cycle_number |-> ts.cycle_number,
                  cycle_start_date |-> ts.cycle_start_date,
                  last_selection_date |-> ts.last_selection_date]]

\* DifficultyTierState.objects.create(tier=..., user=..., cycle_start_date=today)
NewTierRow(tier, user, today) ==
  [tier |-> tier, user |-> user, cycle_number |-> 1,
   cycle_start_date |-> today, last_selection_date |-> None]

\* ---------------------------------- DifficultyTierState.select_next_country
\* tier_countries: the countries eligible for the track.
TierCountries(ts) ==
  IF ts.user = None
    THEN IF ts.tier = "default"
           THEN Countries
           ELSE {c \in Countries : DifficultyTier(c) = ts.tier}
    ELSE Countries

\* self.shown_countries.values_list('country_id', flat=True)
ShownCountryIds(id) == {r[2] : r \in {x \in shown : x[1] = id}}

\* available = tier_countries.exclude(id__in=shown_country_ids)
Available(ts) == TierCountries(ts) \ ShownCountryIds(ts.id)

\* A premature reset: the cycle is reset as soon as anything has been shown.
NeedsResetEarly(ts) == ShownCountryIds(ts.id) # {}

\* if not available.exists()
NeedsReset(ts) == Available(ts) = {}

\* A reset that leaves the cycle number as it was.
NextCycleNumberSame(n) == n

\* line 462: self.cycle_number += 1
NextCycleNumber(n) == n + 1

\* The row of the first country survives the reset.
RowsAfterPartialReset(id) == {r \in shown : r[1] # id \/ r[2] = 1}

\* line 461: self.shown_countries.all().delete()
RowsAfterReset(id) == {r \in shown : r[1] # id}

\* An exception leaves the handler: a direct call fails, the GET view answers
\* 500, the POST view answers 404 when get_or_create_today raised (its
\* try/except Exception, views.py 214-220) and 500 otherwise.
Raise(p, exc) ==
  /\ pc' = [pc EXCEPT ![p] = "done"]
  /\ loc' = [loc EXCEPT ![p] = Answered(loc[p],
       [status |-> IF loc[p].op = "post" /\ pc[p] \in {"g_tier_get", "s_record", "g_create"}
                     THEN 404 ELSE 500,
        error |-> exc, at |-> pc[p]])]

\* Worker p can take a request. The workers are interchangeable: a request
\* goes to a worker that has answered, or to the first one that never served.
Free(p) ==
  \/ pc[p] = "done"
  \/ pc[p] = "idle" /\ \A q \in Procs : q < p => pc[q] # "idle"

\* A direct call of select_next_country on a stored track (as the tests do).
\* pre.shown: the countries with a shown row of the track when the call
\* starts; pre.ts: the stored row of the track at that moment.
StartSelect(p) ==
  /\ Free(p)
  /\ \E id \in DOMAIN tierStates :
       loc' = [loc EXCEPT ![p] = [InitLoc EXCEPT !.op = "select", !.ts = LoadTs(id),
                                    !.pre.shown = ShownCountryIds(id),
                                    !.pre.ts = LoadTs(id)]]
  /\ pc' = [pc EXCEPT ![p] = "s_exists"]
  /\ nreq' = nreq + 1
  /\ UNCHANGED <<now, tierOf, db, selLog, streakLog, judge>>

\* line 460: if not available.exists()
SelExists(p) ==
  /\ pc[p] = "s_exists"
  /\ pc' = [pc EXCEPT ![p] = IF NeedsReset(loc[p].ts) THEN "s_delete" ELSE "s_pick"]
  /\ loc' = [loc EXCEPT ![p].reset = FALSE]
  /\ UNCHANGED <<now, tierOf, db, selLog, streakLog, nreq, judge>>

\* line 461: self.shown_countries.all().delete()
SelDelete(p) ==
  /\ pc[p] = "s_delete"
  /\ shown' = RowsAfterReset(loc[p].ts.id)
  /\ pc' = [pc EXCEPT ![p] = "s_reset_save"]
  /\ UNCHANGED <<now, tierOf, tierStates, challenges, questions, answers, stats,
                 loc, selLog, streakLog, nreq, judge>>

\* lines 462-465: cycle_number += 1; cycle_start_date = today; save();
\* available = tier_countries
SelResetSave(p) ==
  /\ pc[p] = "s_reset_save"
  /\ LET ts == [loc[p].ts EXCEPT !.cycle_number = NextCycleNumber(@),
                                 !.cycle_start_date = now]
     IN /\ tierStates' = SaveTs(ts)
        /\ loc' = [loc EXCEPT ![p].ts = ts, ![p].reset = TRUE]
  /\ pc' = [pc EXCEPT ![p] = "s_pick"]
  /\ UNCHANGED <<now, tierOf, shown, challenges, questions, answers, stats,
                 selLog, streakLog, nreq, judge>>

\* line 468: country = available.order_by('?').first().  The queryset is lazy:
\* it is evaluated by this query, against the rows stored now; after a reset
\* it is tier_countries.  first() of an empty queryset is None.
SelPick(p) ==
  /\ pc[p] = "s_pick"
  /\ LET candidates == IF loc[p].reset THEN TierCountries(loc[p].ts)
                                       ELSE Available(loc[p].ts)
     IN IF candidates = {}
          THEN loc' = [loc EXCEPT ![p].country = None]
          ELSE \E c \in candidates : loc' = [loc EXCEPT ![p].country = c]
  /\ pc' = [pc EXCEPT ![p] = "s_record"]
  /\ UNCHANGED <<now, tierOf, db, selLog, streakLog, nreq, judge>>

\* line 471: TierShownCountry.objects.create(tier_state=self, country=country)
\* IntegrityError: country_id is NOT NULL, (tier_state, country) is unique.
SelRecord(p) ==
  /\ pc[p] = "s_record"
  /\ IF loc[p].country = None \/ <<loc[p].ts.id, loc[p].country>> \in shown
       THEN /\ Raise(p, IF loc[p].country = None
                           THEN "IntegrityError: tiershowncountry.country_id"
                           ELSE "IntegrityError: tiershowncountry unique")
            /\ UNCHANGED shown
       ELSE /\ shown' = shown \cup {<<loc[p].ts.id, loc[p].country>>}
            /\ pc' = [pc EXCEPT ![p] = "s_save"]
            /\ UNCHANGED loc
  /\ UNCHANGED <<now, tierOf, tierStates, challenges, questions, answers, stats,
                 selLog, streakLog, nreq, judge>>

\* lines 474-477: last_selection_date = today; save(); return country
SelSave(p) ==
  /\ pc[p] = "s_save"
  /\ LET ts == [loc[p].ts EXCEPT !.last_selection_date = now]
     IN /\ tierStates' = SaveTs(ts)
        /\ IF loc[p].op = "select"
             THEN /\ loc' = [loc EXCEPT ![p] = Answered(loc[p], [status |-> 200])]
                  /\ selLog' = Append(selLog, [track |-> ts.id,
                                               country |-> loc[p].country,
                                               cycle |-> ts.cycle_number,
                                               reset |-> loc[p].reset])
                  /\ pc' = [pc EXCEPT ![p] = "done"]
             ELSE /\ loc' = [loc EXCEPT ![p].ts = ts]
                  /\ pc' = [pc EXCEPT ![p] = "g_create"]
                  /\ UNCHANGED selLog
  /\ UNCHANGED <<now, tierOf, shown, challenges, questions, answers, stats, streakLog, nreq, judge>>

\* ------------------------------------------------------------------- text
\* A string is a sequence of characters.
Space == " "
Alphabet == {UpperOf[i] : i \in 1..2} \cup {LowerOf[i] : i \in 1..2} \cup {Space}

\* str.lower(), one character
LowerChar(ch) ==
  IF \E i \in DOMAIN UpperOf : UpperOf[i] = ch
    THEN LowerOf[CHOOSE i \in DOMAIN UpperOf : UpperOf[i] = ch]
    ELSE ch

\* str.lower()
LowerStr(s) == [i \in DOMAIN s |-> LowerChar(s[i])]

\* Nothing is removed.
StripStrNone(s) == s

\* str.strip(): leading and trailing whitespace removed
StripStr(s) ==
  IF \A i \in DOMAIN s : s[i] = Space
    THEN <<>>
    ELSE LET first == CHOOSE i \in DOMAIN s :
                        s[i] # Space /\ \A j \in 1..(i - 1) : s[j] = Space
             last == CHOOSE i \in DOMAIN s :
                        s[i] # Space /\ \A j \in (i + 1)..Len(s) : s[j] = Space
         IN SubSeq(s, first, last)

\* ---------------------------------------------------------------- Question
\* A value of a JSON document as Python holds it, tagged with its type:
\*   [t |-> "null", v |-> None]    None
\*   [t |-> "bool", v |-> b]       True / False
\*   [t |-> "num",  v |-> n]       an int
\*   [t |-> "str",  v |-> s]       a str, s its sequence of characters
\*   [t |-> "list", v |-> l]       a list, l the sequence of its values
\*   [t |-> "dict", v |-> l]       a dict, l the sequence of its <<key, value>>
\*                                 pairs in insertion order, keys being
\*                                 sequences of characters
\* The request's answer_data itself is a function from its keys to such
\* values.
JsonNull == [t |-> "null", v |-> None]

JsonStr(s) == [t |-> "str", v |-> s]

\* A bool is an int in a comparison: True == 1, False == 0.
PyNum(x) == IF x.t = "bool" THEN (IF x.v THEN 1 ELSE 0) ELSE x.v

\* Python's == on two JSON values.
RECURSIVE PyEq(_, _)
PyEq(a, b) ==
  IF a.t \in {"bool", "num"} /\ b.t \in {"bool", "num"}
    THEN PyNum(a) = PyNum(b)
  ELSE IF a.t # b.t
    THEN FALSE
  ELSE IF a.t = "list"
    THEN /\ Len(a.v) = Len(b.v)
         /\ \A i \in 1..Len(a.v) : PyEq(a.v[i], b.v[i])
  ELSE IF a.t = "dict"
    THEN /\ Len(a.v) = Len(b.v)
         /\ \A i \in 1..Len(a.v) : \E j \in 1..Len(b.v) :
              a.v[i][1] = b.v[j][1] /\ PyEq(a.v[i][2], b.v[j][2])
  ELSE a.v = b.v

Digit == <<"0", "1", "2", "3", "4", "5", "6", "7", "8", "9">>

\* str() of a natural number
RECURSIVE DecStr(_)
DecStr(n) ==
  IF n < 10 THEN <<Digit[n + 1]>>
  ELSE DecStr(n \div 10) \o <<Digit[(n % 10) + 1]>>

\* repr() of a JSON value; a str is put between single quotes (it holds no
\* quote, backslash or control character).
RECURSIVE PyRepr(_)
RECURSIVE JoinRepr(_)
RECURSIVE JoinItems(_)
PyRepr(x) ==
  IF x.t = "null" THEN <<"N", "o", "n", "e">>
  ELSE IF x.t = "bool"
    THEN (IF x.v THEN <<"T", "r", "u", "e">> ELSE <<"F", "a", "l", "s", "e">>)
  ELSE IF x.t = "num"
    THEN (IF x.v < 0 THEN <<"-">> \o DecStr(0 - x.v) ELSE DecStr(x.v))
  ELSE IF x.t = "str"
    THEN <<"'">> \o x.v \o <<"'">>
  ELSE IF x.t = "list"
    THEN <<"[">> \o JoinRepr(x.v) \o <<"]">>
  ELSE <<"{">> \o JoinItems(x.v) \o <<"}">>

\* ', '.join(repr(e) for e in l)
JoinRepr(l) ==
  IF l = <<>> THEN <<>>
  ELSE IF Len(l) = 1 THEN PyRepr(l[1])
  ELSE PyRepr(l[1]) \o <<",", " ">> \o JoinRepr(Tail(l))

\* The items of a dict in its repr(): 'key': value, ...
JoinItems(l) ==
  IF l = <<>> THEN <<>>
  ELSE LET item == <<"'">> \o l[1][1] \o <<"'", ":", " ">> \o PyRepr(l[1][2])
       IN IF Len(l) = 1 THEN item
          ELSE item \o <<",", " ">> \o JoinItems(Tail(l))

\* str() of a JSON value, as an f-string formats it
PyStr(x) == IF x.t = "str" THEN x.v ELSE PyRepr(x)

\* dict.get(key, default)
DictGet(d, key, default) == IF key \in DOMAIN d THEN d[key] ELSE default

\* Question._validate_text_input: (is_correct, explanation); q.answer and
\* q.alternates are the strings of correct_answer.  A 'text' that is not a
\* str has no lower(): AttributeError.
ValidateTextInput(q, user_answer_data) ==
  LET text == DictGet(user_answer_data, "text", JsonStr(<<>>))
      user_text == StripStr(LowerStr(text.v))
      correct == LowerStr(q.answer)
      alternates == {LowerStr(alt) : alt \in q.alternates}
  IN IF text.t # "str"
       THEN [raises |-> "AttributeError"]
       ELSE [is_correct |-> user_text = correct \/ user_text \in alternates,
             explanation |-> <<"Correct answer: ", q.answer>>]

\* Question._validate_multiple_choice; q.correct is the JSON value
\* correct_answer['correct'].  Without a 'selected_option' the choice is None.
ValidateMultipleChoice(q, user_answer_data) ==
  LET user_choice == DictGet(user_answer_data, "selected_option", JsonNull)
  IN [is_correct |-> PyEq(user_choice, q.correct),
      explanation |-> <<"Correct answer: ", PyStr(q.correct)>>]

\* Question._validate_true_false; q.answer is the JSON value
\* correct_answer['answer'].  Without an 'answer' the value is None.
ValidateTrueFalse(q, user_answer_data) ==
  LET user_bool == DictGet(user_answer_data, "answer", JsonNull)
  IN [is_correct |-> PyEq(user_bool, q.answer),
      explanation |-> <<"The statement is ", PyStr(q.answer)>>]

\* Question.validate_answer(user_answer_data): by the question's format.  The
\* result is [is_correct, explanation], or [raises] when the call raises.
ValidateAnswer(q, user_answer_data) ==
  IF q.format = "text_input"
    THEN ValidateTextInput(q, user_answer_data)
  ELSE IF q.format = "multiple_choice"
    THEN ValidateMultipleChoice(q, user_answer_data)
  ELSE IF q.format = "true_false"
    THEN ValidateTrueFalse(q, user_answer_data)
  ELSE [is_correct |-> FALSE, explanation |-> <<"Unknown question format", <<>>>>]

\* Country.raw_api_response['altSpellings']: each country has its initial as
\* an alternate spelling.
AltSpellings(c) == {<<UpperOf[c]>>}

\* MANUAL_ALTERNATES.get(country_code, []): the table is empty
ManualAlternates(c) == {}

\* get_alternates_for_country: lower-cased, merged, empty strings excluded
GetAlternatesForCountry(c, api_alternates) ==
  {alt \in {LowerStr(a) : a \in api_alternates \cup ManualAlternates(c)} : alt # <<>>}

\* The row DailyChallenge.create_question inserts.
NewQuestion(ch) ==
  [daily_challenge |-> ch, country |-> challenges[ch].country,
   category |-> "flag", format |-> "text_input",
   question_text |-> "Which country does this flag belong to?",
   answer |-> CountryName(challenges[ch].country), alternates |-> {}]

\* ---------------------------------------- DailyChallenge.get_or_create_today
\* The ids of the challenges stored for a date.
ChallengesOn(d) == {id \in DOMAIN challenges : challenges[id].date = d}

\* The rows get_or_create(tier='default', user=None) looks up.
DefaultTracks == {id \in DOMAIN tierStates :
                    tierStates[id].tier = "default" /\ tierStates[id].user = None}

\* The newest stored row is rewritten instead of a row being added.
OverwriteLatestChallenge(row) ==
  IF challenges = <<>> THEN <<row>>
  ELSE [challenges EXCEPT ![Len(challenges)] = row]

\* lines 325-329: cls.objects.create(...), an INSERT of a new row
InsertChallenge(row) == Append(challenges, row)

\* A direct call of DailyChallenge.get_or_create_today() (as the tests do).
StartGoct(p) ==
  /\ Free(p)
  /\ loc' = [loc EXCEPT ![p] = [InitLoc EXCEPT !.op = "goct", !.today = now,
                       !.pre = [n |-> Len(answers), stats |-> stats,
                                challenges |-> ChallengesOn(now), shown |-> {},
                     ts |-> NoTs]]]
  /\ pc' = [pc EXCEPT ![p] = "g_lookup"]
  /\ nreq' = nreq + 1
  /\ UNCHANGED <<now, tierOf, db, selLog, streakLog, judge>>

\* get_or_create_today returns (challenge, created) with the locals l: to the
\* view that called it, or to the direct caller.
GoctReturn(p, l) ==
  IF l.op = "goct"
    THEN /\ pc' = [pc EXCEPT ![p] = "done"]
         /\ loc' = [loc EXCEPT ![p] = Answered(l,
                      [status |-> 200, id |-> l.challenge, created |-> l.created])]
    ELSE /\ pc' = [pc EXCEPT ![p] = "v_question"]
         /\ loc' = [loc EXCEPT ![p] = l]

\* A GET /api/v1/daily/ request of user u arrives.
StartGet(p, u) ==
  /\ Free(p)
  /\ loc' = [loc EXCEPT ![p] = [InitLoc EXCEPT !.op = "get", !.user = u, !.today = now,
                       !.pre = [n |-> Len(answers), stats |-> stats,
                                challenges |-> ChallengesOn(now), shown |-> {},
                     ts |-> NoTs]]]
  /\ pc' = [pc EXCEPT ![p] = "g_lookup"]
  /\ nreq' = nreq + 1
  /\ UNCHANGED <<now, tierOf, db, selLog, streakLog, judge>>

\* A POST /api/v1/daily/answer/ request of user u arrives with a valid payload.
StartPost(p, u, text) ==
  /\ Free(p)
  /\ loc' = [loc EXCEPT ![p] = [InitLoc EXCEPT !.op = "post", !.user = u,
                                               !.payload = "text",
                                               !.text = text, !.today = now,
                       !.pre = [n |-> Len(answers), stats |-> stats,
                                challenges |-> ChallengesOn(now), shown |-> {},
                     ts |-> NoTs]]]
  /\ pc' = [pc EXCEPT ![p] = "g_lookup"]
  /\ nreq' = nreq + 1
  /\ UNCHANGED <<now, tierOf, db, selLog, streakLog, judge>>

\* The stored row is reported as newly created.
LookupResultCreated(id) == [challenge |-> id, created |-> TRUE]

\* line 308: return cls.objects.get(date=today), False
LookupResult(id) == [challenge |-> id, created |-> FALSE]

\* The request bodies of POST /api/v1/daily/answer/, by shape: no answer_data
\* key, an answer_data that is not an object, an object without 'text', an
\* object whose 'text' is not a string (a number, null, a list, ...), an
\* object {'text': <string>}.
PayloadKinds == {"missing", "not_object", "no_text", "text_not_string", "text"}

\* QuestionAnswerSerializer.is_valid(): answer_data is required and
\* validate_answer_data wants a dict.
SerializerValid(kind) == kind \notin {"missing", "not_object"}

\* models.py 632: user_answer_data.get("text", "")
PayloadText(kind, text) == IF kind = "text" THEN text ELSE <<>>

\* A POST /api/v1/daily/answer/ request of user u arrives with a body of the
\* given shape.  views.py 208-210: an invalid serializer is answered 400.
StartPostPayload(p, u, kind, text) ==
  /\ Free(p)
  /\ LET l == [InitLoc EXCEPT !.op = "post", !.user = u, !.payload = kind,
                              !.text = PayloadText(kind, text), !.today = now,
                              !.pre = [n |-> Len(answers), stats |-> stats,
                                       challenges |-> ChallengesOn(now), shown |-> {},
                     ts |-> NoTs]]
     IN IF SerializerValid(kind)
          THEN /\ loc' = [loc EXCEPT ![p] = l]
               /\ pc' = [pc EXCEPT ![p] = "g_lookup"]
          ELSE /\ loc' = [loc EXCEPT ![p] = Answered(l,
                            [status |-> 400, error |-> "answer_data"])]
               /\ pc' = [pc EXCEPT ![p] = "done"]
  /\ nreq' = nreq + 1
  /\ UNCHANGED <<now, tierOf, db, selLog, streakLog, judge>>

\* The lookup never finds a stored challenge.
ChallengeStoredNever(today) == FALSE

\* lines 306-309: does cls.objects.get(date=today) find a row, or raise
\* DoesNotExist?
ChallengeStored(today) == ChallengesOn(today) # {}

\* lines 306-310: cls.objects.get(date=today)
GoctLookup(p) ==
  /\ pc[p] = "g_lookup"
  /\ IF ChallengeStored(loc[p].today)
       THEN LET found == LookupResult(CHOOSE id \in ChallengesOn(loc[p].today) : TRUE)
            IN GoctReturn(p, [loc[p] EXCEPT !.challenge = found.challenge,
                                            !.created = found.created])
       ELSE /\ pc' = [pc EXCEPT ![p] = "g_tier_get"]
            /\ UNCHANGED loc
  /\ UNCHANGED <<now, tierOf, db, selLog, streakLog, nreq, judge>>

\* lines 313-319, get_or_create: the get().  No row: create one; several
\* rows: MultipleObjectsReturned.
GoctTierGet(p) ==
  /\ pc[p] = "g_tier_get"
  /\ IF DefaultTracks = {}
       THEN /\ pc' = [pc EXCEPT ![p] = "g_tier_create"]
            /\ UNCHANGED loc
       ELSE IF Cardinality(DefaultTracks) = 1
         THEN /\ loc' = [loc EXCEPT ![p].ts = LoadTs(CHOOSE id \in DefaultTracks : TRUE)]
              /\ pc' = [pc EXCEPT ![p] = "s_exists"]
         ELSE Raise(p, "MultipleObjectsReturned")
  /\ UNCHANGED <<now, tierOf, db, selLog, streakLog, nreq, judge>>

\* lines 313-319, get_or_create: the create().  user is NULL, and NULLs are
\* distinct in a unique index, so unique_together never rejects this insert.
GoctTierCreate(p) ==
  /\ pc[p] = "g_tier_create"
  /\ tierStates' = Append(tierStates, NewTierRow("default", None, loc[p].today))
  /\ loc' = [loc EXCEPT ![p].ts =
       [id |-> Len(tierStates) + 1, tier |-> "default", user |-> None,
        cycle_number |-> 1, cycle_start_date |-> loc[p].today,
        last_selection_date |-> None]]
  /\ pc' = [pc EXCEPT ![p] = "s_exists"]
  /\ UNCHANGED <<now, tierOf, shown, challenges, questions, answers, stats,
                 selLog, streakLog, nreq, judge>>

\* No uniqueness constraint on the date column.
DateTakenNever(d) == FALSE

\* DailyChallenge.date is unique=True: an insert for a stored date is refused.
DateTaken(d) == ChallengesOn(d) # {}

\* lines 325-329: cls.objects.create(date=today, country=country, ...)
\* date is unique: a second row for the date raises IntegrityError.
GoctCreate(p) ==
  /\ pc[p] = "g_create"
  /\ IF DateTaken(loc[p].today)
       THEN /\ Raise(p, "IntegrityError: dailychallenge.date")
            /\ UNCHANGED challenges
       ELSE /\ challenges' = InsertChallenge([date |-> loc[p].today,
                                               country |-> loc[p].country])
            /\ loc' = [loc EXCEPT ![p].challenge = Len(challenges) + 1]
            /\ pc' = [pc EXCEPT ![p] = "g_question"]
  /\ UNCHANGED <<now, tierOf, tierStates, shown, questions, answers, stats,
                 selLog, streakLog, nreq, judge>>

\* lines 332-334: challenge.create_question(); return challenge, True
GoctQuestion(p) ==
  /\ pc[p] = "g_question"
  /\ questions' = Append(questions, NewQuestion(loc[p].challenge))
  /\ GoctReturn(p, [loc[p] EXCEPT !.created = TRUE])
  /\ UNCHANGED <<now, tierOf, tierStates, shown, challenges, answers, stats,
                 selLog, streakLog, nreq, judge>>

GoctSteps(p) ==
  \/ GoctLookup(p) \/ GoctTierGet(p) \/ GoctTierCreate(p)
  \/ GoctCreate(p) \/ GoctQuestion(p)

\* ------------------------------------------------------------ UserStats
Max(a, b) == IF a >= b THEN a ELSE b

\* A correct guess extends the streak whatever the date of the previous guess.
UpdateDailyStreakNoGap(st, is_correct, guess_date) ==
  IF is_correct
    THEN [st EXCEPT !.current_streak = st.current_streak + 1,
                    !.longest_streak = IF st.longest_streak >= st.current_streak + 1
                                         THEN st.longest_streak
                                         ELSE st.current_streak + 1,
                    !.total_correct = st.total_correct + 1,
                    !.last_guess_date = guess_date]
    ELSE [st EXCEPT !.current_streak = 0, !.last_guess_date = guess_date]

\* A failure keeps the streak and only moves last_guess_date.
UpdateDailyStreakKeepOnFailure(st, is_correct, guess_date) ==
  IF is_correct
    THEN LET cur == IF st.last_guess_date # None /\ st.last_guess_date = guess_date - 1
                      THEN st.current_streak + 1
                      ELSE 1
         IN [st EXCEPT !.current_streak = cur,
                       !.longest_streak = Max(st.longest_streak, cur),
                       !.total_correct = st.total_correct + 1,
                       !.last_guess_date = guess_date]
    ELSE [st EXCEPT !.last_guess_date = guess_date]

\* longest_streak is overwritten with the current streak.
UpdateDailyStreakLongestIsCurrent(st, is_correct, guess_date) ==
  IF is_correct
    THEN LET cur == IF st.last_guess_date # None /\ st.last_guess_date = guess_date - 1
                      THEN st.current_streak + 1
                      ELSE 1
         IN [st EXCEPT !.current_streak = cur,
                       !.longest_streak = cur,
                       !.total_correct = st.total_correct + 1,
                       !.last_guess_date = guess_date]
    ELSE [st EXCEPT !.current_streak = 0, !.last_guess_date = guess_date]

\* UserStats.update_daily_streak, up to its save()
UpdateDailyStreak(st, is_correct, guess_date) ==
  IF is_correct
    THEN LET cur == IF st.last_guess_date # None /\ st.last_guess_date = guess_date - 1
                      THEN st.current_streak + 1
                      ELSE 1
         IN [st EXCEPT !.current_streak = cur,
                       !.longest_streak = Max(st.longest_streak, cur),
                       !.total_correct = st.total_correct + 1,
                       !.last_guess_date = guess_date]
    ELSE [st EXCEPT !.current_streak = 0, !.last_guess_date = guess_date]

InSeq(x, s) == \E i \in DOMAIN s : s[i] = x

\* The code is appended whether or not it is present.
AddIncorrectCountryAlways(st, code) ==
  [st EXCEPT !.incorrect_countries = Append(@, code)]

\* UserStats.add_incorrect_country, up to its save()
AddIncorrectCountry(st, code) ==
  IF InSeq(code, st.incorrect_countries)
    THEN st
    ELSE [st EXCEPT !.incorrect_countries = Append(@, code)]

\* The row UserStats.objects.get_or_create(user=user) creates.
FreshStats == [NoStats EXCEPT !.exists = TRUE]

\* ------------------------------------------------------------------ views
\* The UserAnswer rows of a user on a question.
AnswersOf(u, q) == {i \in DOMAIN answers : answers[i].user = u /\ answers[i].question = q}

\* challenge.get_question(): self.questions.first(), the lowest id
QuestionsOf(ch) == {id \in DOMAIN questions : questions[id].daily_challenge = ch}

\* views.py 93 / 223: question = challenge.get_question()
ViewQuestion(p) ==
  /\ pc[p] = "v_question"
  /\ IF QuestionsOf(loc[p].challenge) = {}
       THEN /\ pc' = [pc EXCEPT ![p] = "v_create_question"]
            /\ UNCHANGED loc
       ELSE /\ loc' = [loc EXCEPT ![p].question =
                         CHOOSE id \in QuestionsOf(loc[p].challenge) :
                           \A other \in QuestionsOf(loc[p].challenge) : id <= other]
            /\ pc' = [pc EXCEPT ![p] = "v_count"]
  /\ UNCHANGED <<now, tierOf, db, selLog, streakLog, nreq, judge>>

\* views.py 96-97 / 224-225: question = challenge.create_question()
ViewCreateQuestion(p) ==
  /\ pc[p] = "v_create_question"
  /\ questions' = Append(questions, NewQuestion(loc[p].challenge))
  /\ loc' = [loc EXCEPT ![p].question = Len(questions) + 1]
  /\ pc' = [pc EXCEPT ![p] = "v_count"]
  /\ UNCHANGED <<now, tierOf, tierStates, shown, challenges, answers, stats,
                 selLog, streakLog, nreq, judge>>

\* views.py 106 / 233: attempts_used = user_answers.count()
ViewCount(p) ==
  /\ pc[p] = "v_count"
  /\ loc' = [loc EXCEPT ![p].attempts_used =
               Cardinality(AnswersOf(loc[p].user, loc[p].question))]
  /\ pc' = [pc EXCEPT ![p] = "v_list"]
  /\ UNCHANGED <<now, tierOf, db, selLog, streakLog, nreq, judge>>

\* The name is serialized with the flag.
CountryFieldsWithName ==
  {"name", "flag_emoji", "flag_svg_url", "flag_png_url", "flag_alt_text"}

\* DailyChallengeCountrySerializer.Meta.fields
DailyChallengeCountryFields ==
  {"flag_emoji", "flag_svg_url", "flag_png_url", "flag_alt_text"}

\* CountryListSerializer.Meta.fields
CountryListFields ==
  {"code", "name", "flag_emoji", "flag_svg_url", "population", "capital"}

\* DailyChallengeQuestionSerializer.Meta.fields
DailyChallengeQuestionFields == {"id", "category", "format", "question_text", "metadata"}

\* A Country row as the serializers see it.
CountryRow(c) ==
  [code |-> CountryCode(c), name |-> CountryName(c),
   flag_emoji |-> <<"emoji", c>>, flag_svg_url |-> <<"svg", c>>,
   flag_png_url |-> <<"png", c>>, flag_alt_text |-> <<"alt", c>>,
   population |-> <<"population", c>>, capital |-> <<"capital", c>>]

\* Question.correct_answer, the JSON column
CorrectAnswer(q) == [answer |-> q.answer, alternates |-> q.alternates]

\* A Question row as the serializers see it.
QuestionRow(id) ==
  [id |-> id, category |-> questions[id].category, format |-> questions[id].format,
   question_text |-> questions[id].question_text, metadata |-> <<>>,
   correct_answer |-> CorrectAnswer(questions[id])]

\* A ModelSerializer: the row restricted to Meta.fields.
Serialize(row, fields) == [f \in fields |-> row[f]]

\* all(...) in place of any(...), on a non-empty list
HasCorrectAll(u, q) ==
  /\ AnswersOf(u, q) # {}
  /\ \A i \in AnswersOf(u, q) : answers[i].is_correct

\* views.py 234: has_correct = any(answer.is_correct for answer in existing_answers)
HasCorrect(u, q) == \E i \in AnswersOf(u, q) : answers[i].is_correct

\* Completed only by a correct attempt.
HasCompletedOnlyCorrect(has_correct, attempts_used) == has_correct

\* views.py 108: has_completed = has_correct or attempts_used >= MAX_DAILY_ATTEMPTS
HasCompleted(has_correct, attempts_used) ==
  has_correct \/ attempts_used >= MAX_DAILY_ATTEMPTS

\* views.py 110-119: the three-valued is_correct of user_status
StatusIsCorrect(has_correct, attempts_used) ==
  IF has_correct THEN "True"
  ELSE IF attempts_used >= MAX_DAILY_ATTEMPTS THEN "False"
  ELSE "None"

\* views.py 107-140: the rest of DailyChallengeView.get
GetRespond(p) ==
  /\ pc[p] = "v_list" /\ loc[p].op = "get"
  /\ LET l == loc[p]
         has_correct == HasCorrect(l.user, l.question)
         has_completed == HasCompleted(has_correct, l.attempts_used)
         is_correct == StatusIsCorrect(has_correct, l.attempts_used)
     IN loc' = [loc EXCEPT ![p] = Answered(l,
          [status |-> 200,
           id |-> l.challenge,
           date |-> challenges[l.challenge].date,
           question |-> Serialize(QuestionRow(l.question), DailyChallengeQuestionFields),
           country |-> Serialize(CountryRow(challenges[l.challenge].country),
                                 DailyChallengeCountryFields),
           user_status |-> [has_completed |-> has_completed,
                            attempts_used |-> l.attempts_used,
                            attempts_remaining |-> Max(0, MAX_DAILY_ATTEMPTS - l.attempts_used),
                            is_correct |-> is_correct]])]
  /\ pc' = [pc EXCEPT ![p] = "done"]
  /\ UNCHANGED <<now, tierOf, db, selLog, streakLog, nreq, judge>>

\* The response always carries correct_answer.
AnswerResponseAlways(l, q) ==
  [status |-> 200, is_correct |-> l.is_correct, explanation |-> l.explanation,
   attempts_remaining |-> Max(0, MAX_DAILY_ATTEMPTS - l.attempt_number),
   correct_answer |-> CorrectAnswer(q)]

\* The attempts left before the attempt just made.
AttemptsRemainingBefore(attempt_number) ==
  Max(0, MAX_DAILY_ATTEMPTS - attempt_number + 1)

\* views.py 274: attempts_remaining = max(0, MAX_DAILY_ATTEMPTS - attempt_number)
AttemptsRemaining(attempt_number) == Max(0, MAX_DAILY_ATTEMPTS - attempt_number)

\* views.py 273-291: the response of an accepted submission
AnswerResponse(l, q) ==
  LET attempts_remaining == AttemptsRemaining(l.attempt_number)
      is_completed == l.is_correct \/ attempts_remaining = 0
      base == [status |-> 200, is_correct |-> l.is_correct,
               explanation |-> l.explanation,
               attempts_remaining |-> attempts_remaining]
  IN IF is_completed
       THEN [f \in DOMAIN base \cup {"correct_answer"} |->
               IF f = "correct_answer" THEN CorrectAnswer(q) ELSE base[f]]
       ELSE base

\* Every attempt is stored with the column default, attempt_number = 1.
NextAttemptNumberDefault(attempts_used) == 1

\* views.py 256: attempt_number = attempts_used + 1
NextAttemptNumber(attempts_used) == attempts_used + 1

\* views.py 251: serializer.validated_data['answer_data'], the submitted
\* dict: {'text': <string>}, a dict without 'text', or a dict whose 'text' is
\* not a string (None stands for every such value).
AnswerData(l) ==
  IF l.payload = "no_text" THEN <<>>
  ELSE IF l.payload = "text_not_string" THEN [text |-> JsonNull]
  ELSE [text |-> JsonStr(l.text)]

\* views.py 250-256: the handler's locals once the answer is judged
JudgeAttempt(l, q) ==
  LET v == ValidateAnswer(q, AnswerData(l))
  IN [l EXCEPT !.is_correct = v.is_correct,
               !.explanation = v.explanation,
               !.attempt_number = NextAttemptNumber(l.attempts_used)]

\* The comparison is > in place of >=.
AttemptsExhaustedOffByOne(attempts_used) == attempts_used > MAX_DAILY_ATTEMPTS

\* views.py 244: if attempts_used >= MAX_DAILY_ATTEMPTS
AttemptsExhausted(attempts_used) == attempts_used >= MAX_DAILY_ATTEMPTS

\* views.py 234-253: has_correct = any(...), the two rejections, validate_answer
PostCheck(p) ==
  /\ pc[p] = "v_list" /\ loc[p].op = "post"
  /\ LET l == loc[p]
         has_correct == HasCorrect(l.user, l.question)
     IN IF has_correct
          THEN /\ loc' = [loc EXCEPT ![p] = Answered(l,
                            [status |-> 400, error |-> "AlreadyAnsweredCorrectly"])]
               /\ pc' = [pc EXCEPT ![p] = "done"]
          ELSE IF AttemptsExhausted(l.attempts_used)
            THEN /\ loc' = [loc EXCEPT ![p] = Answered(l,
                              [status |-> 400, error |-> "AttemptsExhausted"])]
                 /\ pc' = [pc EXCEPT ![p] = "done"]
            ELSE IF "raises" \in DOMAIN ValidateAnswer(questions[l.question], AnswerData(l))
              THEN Raise(p, ValidateAnswer(questions[l.question], AnswerData(l)).raises)
              ELSE /\ loc' = [loc EXCEPT ![p] = JudgeAttempt(l, questions[l.question])]
                   /\ pc' = [pc EXCEPT ![p] = "p_insert"]
  /\ UNCHANGED <<now, tierOf, db, selLog, streakLog, nreq, judge>>

\* Every stored attempt updates the stats.
UpdatesStatsAlways(l) == TRUE

\* views.py 268-271: does this attempt update the stats?
UpdatesStats(l) == l.is_correct \/ l.attempt_number >= MAX_DAILY_ATTEMPTS

\* views.py 257-265: UserAnswer.objects.create(...)
PostInsert(p) ==
  /\ pc[p] = "p_insert"
  /\ answers' = Append(answers, [user |-> loc[p].user, question |-> loc[p].question,
                                 text |-> loc[p].text, is_correct |-> loc[p].is_correct,
                                 attempt_number |-> loc[p].attempt_number])
  /\ IF UpdatesStats(loc[p])
       THEN /\ pc' = [pc EXCEPT ![p] = "p_stats_get"]
            /\ UNCHANGED loc
       ELSE /\ pc' = [pc EXCEPT ![p] = "done"]
            /\ loc' = [loc EXCEPT ![p] = Answered(loc[p],
                         AnswerResponse(loc[p], questions[loc[p].question]))]
  /\ UNCHANGED <<now, tierOf, tierStates, shown, challenges, questions, stats,
                 selLog, streakLog, nreq, judge>>

\* views.py 296 / 302, UserStats.objects.get_or_create(user=user): the get()
PostStatsGet(p) ==
  /\ pc[p] = "p_stats_get"
  /\ IF stats[loc[p].user].exists
       THEN /\ loc' = [loc EXCEPT ![p].st = stats[loc[p].user]]
            /\ pc' = [pc EXCEPT ![p] = "p_streak"]
       ELSE /\ pc' = [pc EXCEPT ![p] = "p_stats_create"]
            /\ UNCHANGED loc
  /\ UNCHANGED <<now, tierOf, db, selLog, streakLog, nreq, judge>>

\* get_or_create: the create(); user is unique (OneToOneField), so the INSERT
\* of the loser of a race is refused with IntegrityError, and get_or_create
\* then runs its get() again, as a statement of its own.
PostStatsCreate(p) ==
  /\ pc[p] = "p_stats_create"
  /\ IF stats[loc[p].user].exists
       THEN /\ pc' = [pc EXCEPT ![p] = "p_stats_get"]
            /\ UNCHANGED <<stats, loc>>
       ELSE /\ stats' = [stats EXCEPT ![loc[p].user] = FreshStats]
            /\ loc' = [loc EXCEPT ![p].st = FreshStats]
            /\ pc' = [pc EXCEPT ![p] = "p_streak"]
  /\ UNCHANGED <<now, tierOf, tierStates, shown, challenges, questions, answers,
                 selLog, streakLog, nreq, judge>>

\* views.py 297 / 303: stats.update_daily_streak(is_correct, timezone.now().date())
\* save() writes every column of the in-memory object.
PostStreak(p) ==
  /\ pc[p] = "p_streak"
  /\ LET st == UpdateDailyStreak(loc[p].st, loc[p].is_correct, now)
     IN /\ stats' = [stats EXCEPT ![loc[p].user] = st]
        /\ IF loc[p].is_correct
             THEN /\ loc' = [loc EXCEPT ![p] = Answered(loc[p],
                               AnswerResponse(loc[p], questions[loc[p].question]))]
                  /\ pc' = [pc EXCEPT ![p] = "done"]
             ELSE /\ loc' = [loc EXCEPT ![p].st = st]
                  /\ pc' = [pc EXCEPT ![p] = "p_incorrect"]
  /\ streakLog' = Append(streakLog, [user |-> loc[p].user, challenge |-> loc[p].challenge,
                                     is_correct |-> loc[p].is_correct, date |-> now])
  /\ UNCHANGED <<now, tierOf, tierStates, shown, challenges, questions, answers, selLog, nreq, judge>>

\* views.py 304: stats.add_incorrect_country(challenge.country.code); it saves
\* only when the code was appended.
PostIncorrect(p) ==
  /\ pc[p] = "p_incorrect"
  /\ LET code == CountryCode(challenges[loc[p].challenge].country)
         st == AddIncorrectCountry(loc[p].st, code)
     IN /\ stats' = IF st = loc[p].st THEN stats ELSE [stats EXCEPT ![loc[p].user] = st]
        /\ loc' = [loc EXCEPT ![p] = Answered(loc[p],
                     AnswerResponse(loc[p], questions[loc[p].question]))]
  /\ pc' = [pc EXCEPT ![p] = "done"]
  /\ UNCHANGED <<now, tierOf, tierStates, shown, challenges, questions, answers,
                 selLog, streakLog, nreq, judge>>

\* The handler's next step reads timezone.now(): cycle_start_date (line 463)
\* or last_selection_date (474) is assigned, or the stats are updated
\* (views.py 297 / 303).
ReadsClock(p) == pc[p] \in {"s_reset_save", "s_save", "p_streak"}

\* Midnight passes. The date is observed through timezone.now() only, so
\* midnight is taken while somebody can still read it: a handler in flight,
\* or a request yet to arrive (which reads it at line 304).
AdvanceDay(more) ==
  /\ now < LastDay
  /\ more \/ \E p \in Procs : ReadsClock(p)
  /\ now' = now + 1
  /\ UNCHANGED <<tierOf, db, pc, loc, selLog, streakLog, nreq, judge>>

SelectSteps(p) ==
  \/ SelExists(p) \/ SelDelete(p) \/ SelResetSave(p)
  \/ SelPick(p) \/ SelRecord(p) \/ SelSave(p)

\* ------------------------------------------------------------------------
\* SpecSel: sequential select_next_country calls on one stored track.
NoJudge == [phase |-> "off"]

InitCommon ==
  /\ now = FirstDay
  /\ tierOf = [c \in Countries |-> InitialTier(c)]
  /\ stats = [u \in Users |-> NoStats]
  /\ pc = [p \in Procs |-> "idle"]
  /\ loc = [p \in Procs |-> InitLoc]
  /\ selLog = <<>>
  /\ streakLog = <<>>
  /\ nreq = 0

InitSel ==
  /\ InitCommon
  /\ judge = NoJudge
  /\ answers = <<>>
  /\ shown = {}
  /\ challenges = <<>>
  /\ questions = <<>>
  /\ \E tier \in Tiers \cup {"medium"}, user \in {None} \cup Users :
       tierStates = <<NewTierRow(tier, user, FirstDay)>>

NextSel ==
  \/ nreq < MaxCalls /\ StartSelect(1)
  \/ SelectSteps(1)
  \/ AdvanceDay(nreq < MaxCalls)

SpecSel == InitSel /\ [][NextSel]_vars

\* ------------------------------------------------------------------------
\* The catalog tables after the daily challenge has been served on each of
\* the k days up to the day last, countries 1..k having been picked: no rows
\* on a fresh deployment (k = 0), the whole catalog shown after NumCountries
\* days.
Served(k, last) ==
  /\ tierStates = IF k = 0 THEN <<>>
                  ELSE <<[NewTierRow("default", None, last - k + 1)
                            EXCEPT !.last_selection_date = last]>>
  /\ shown = {<<1, c>> : c \in 1..k}
  /\ challenges = [i \in 1..k |-> [date |-> last - k + i, country |-> i]]
  /\ questions = [i \in 1..k |-> NewQuestion(i)]

\* Today's challenge has not been served yet and nobody has answered.
Init ==
  /\ InitCommon
  /\ judge = NoJudge
  /\ answers = <<>>
  /\ \E k \in {0, NumCountries} : Served(k, FirstDay - 1)

\* SpecRace: concurrent callers of DailyChallenge.get_or_create_today() in
\* the course of one day.
NextRace ==
  \/ \E p \in Procs : nreq < RaceRequests /\ StartGoct(p)
  \/ \E p \in Procs : GoctSteps(p)
  \/ \E p \in Procs : SelectSteps(p)

SpecRace == Init /\ [][NextRace]_vars

\* SpecGet: the HTTP workers serve GET /api/v1/daily/ requests concurrently.
NextGet ==
  \/ \E p \in Procs, u \in Users : nreq < RaceRequests /\ StartGet(p, u)
  \/ \E p \in Procs : GoctSteps(p)
  \/ \E p \in Procs : SelectSteps(p)
  \/ \E p \in Procs : ViewQuestion(p) \/ ViewCreateQuestion(p) \/ ViewCount(p) \/ GetRespond(p)
  \/ AdvanceDay(nreq < RaceRequests)

SpecGet == Init /\ [][NextGet]_vars

\* ------------------------------------------------------------------------
\* SpecSeq: one worker serves GET and POST requests one after the other.
SubmitTexts == {LowerStr(CountryName(c)) : c \in Countries}

\* Today's challenge has not been served yet, or it has and user 1 has made
\* up to two attempts on it, all wrong (the stats change with a correct or a
\* third attempt only).
InitSeq ==
  \/ Init
  \/ /\ InitCommon
     /\ judge = NoJudge
     /\ \E k \in {1, NumCountries}, j \in 0..(MAX_DAILY_ATTEMPTS - 1) :
          /\ Served(k, FirstDay)
          /\ answers = [i \in 1..j |->
                          [user |-> 1, question |-> k, text |-> <<>>,
                           is_correct |-> FALSE, attempt_number |-> i]]

NextSeq ==
  \/ \E u \in Users : nreq < SeqRequests /\ StartGet(1, u)
  \/ \E u \in Users, text \in SubmitTexts : nreq < SeqRequests /\ StartPost(1, u, text)
  \/ GoctSteps(1)
  \/ SelectSteps(1)
  \/ ViewQuestion(1) \/ ViewCount(1) \/ GetRespond(1)
  \/ PostCheck(1) \/ PostInsert(1) \/ PostStatsGet(1) \/ PostStatsCreate(1)
  \/ PostStreak(1) \/ PostIncorrect(1)
  \/ AdvanceDay(nreq < SeqRequests)

SpecSeq == InitSeq /\ [][NextSeq]_vars

\* ------------------------------------------------------------------------
\* SpecSubmit: today's challenge and its question are stored (a GET has been
\* served); the workers serve POST /api/v1/daily/answer/ requests concurrently.
InitSubmit ==
  /\ InitCommon
  /\ judge = NoJudge
  /\ answers = <<>>
  /\ \E c \in Countries :
       /\ tierStates = <<[NewTierRow("default", None, FirstDay)
                           EXCEPT !.last_selection_date = FirstDay]>>
       /\ shown = {<<1, c>>}
       /\ challenges = <<[date |-> FirstDay, country |-> c]>>
       /\ questions = <<[daily_challenge |-> 1, country |-> c,
                         category |-> "flag", format |-> "text_input",
                         question_text |-> "Which country does this flag belong to?",
                         answer |-> CountryName(c), alternates |-> {}]>>

PostSteps(p) ==
  \/ GoctLookup(p) \/ ViewQuestion(p) \/ ViewCount(p)
  \/ PostCheck(p) \/ PostInsert(p) \/ PostStatsGet(p) \/ PostStatsCreate(p)
  \/ PostStreak(p) \/ PostIncorrect(p)

NextSubmit ==
  \/ \E p \in Procs, u \in Users, text \in SubmitTexts :
       nreq < SubmitRequests /\ StartPost(p, u, text)
  \/ \E p \in Procs : PostSteps(p)

SpecSubmit == InitSubmit /\ [][NextSubmit]_vars

\* ------------------------------------------------------------------------
\* SpecJudge: today's challenge is stored with a text-input question whose
\* accepted answer is one of two names; user 1 has made up to two attempts on
\* it, all wrong; one POST /api/v1/daily/answer/ with any text of up to
\* MaxTextLen characters is served in full.
RECURSIVE TextsOfLen(_)
TextsOfLen(n) ==
  IF n = 0 THEN {<<>>}
  ELSE {Append(t, ch) : t \in TextsOfLen(n - 1), ch \in Alphabet}

Texts == UNION {TextsOfLen(n) : n \in 0..MaxTextLen}

TextQuestion(answer) ==
  [daily_challenge |-> 1, country |-> 1, category |-> "flag", format |-> "text_input",
   question_text |-> "Which country does this flag belong to?",
   answer |-> answer, alternates |-> {}]

InitJudge ==
  /\ InitCommon
  /\ judge = NoJudge
  /\ \E a \in {CountryName(c) : c \in 1..2}, used \in 0..(MAX_DAILY_ATTEMPTS - 1) :
       /\ tierStates = <<[NewTierRow("default", None, FirstDay)
                           EXCEPT !.last_selection_date = FirstDay]>>
       /\ shown = {<<1, 1>>}
       /\ challenges = <<[date |-> FirstDay, country |-> 1]>>
       /\ questions = <<TextQuestion(a)>>
       /\ answers = [i \in 1..used |->
                       [user |-> 1, question |-> 1, text |-> <<>>,
                        is_correct |-> FALSE, attempt_number |-> i]]

NextJudge ==
  \/ \E text \in Texts : nreq = 0 /\ StartPost(1, 1, text)
  \/ PostSteps(1)

SpecJudge == InitJudge /\ [][NextJudge]_vars

\* ------------------------------------------------------------------------
\* SpecValidate: Question.validate_answer applied to one text_input question
\* and one submitted text.  The texts are those of SpecJudge and the same
\* texts with a space before, after, or on both sides.
PaddedTexts ==
  Texts \cup {<<Space>> \o t : t \in Texts} \cup {t \o <<Space>> : t \in Texts}
        \cup {<<Space>> \o t \o <<Space>> : t \in Texts}

\* correct_answer['alternates'] lists drawn from a mixed-case pool.
AlternatePool == {<<UpperOf[1], UpperOf[2]>>, <<LowerOf[2]>>}

InitValidate ==
  /\ InitCommon
  /\ answers = <<>>
  /\ Served(0, FirstDay - 1)
  /\ \E a \in {CountryName(c) : c \in 1..2}, alts \in SUBSET AlternatePool,
        text \in PaddedTexts :
       judge = [phase |-> "validate_in",
                q |-> [TextQuestion(a) EXCEPT !.alternates = alts],
                text |-> text]

ValidateStep ==
  /\ judge.phase = "validate_in"
  /\ judge' = [phase |-> "validate_out", q |-> judge.q, text |-> judge.text,
               result |-> ValidateAnswer(judge.q, [text |-> JsonStr(judge.text)])]
  /\ UNCHANGED <<now, tierOf, db, pc, loc, selLog, streakLog, nreq>>

NextValidate == ValidateStep

SpecValidate == InitValidate /\ [][NextValidate]_vars

\* ------------------------------------------------------------------------
\* GET /api/v1/daily/history/ (DailyChallengeHistoryView).
\* Today's challenge is listed too.
InHistoryUpToToday(d, today) == d <= today

\* views.py 164-166: filter(date__lt=today)
InHistory(d, today) == d < today

\* views.py 163: today = timezone.now().date()
StartHistory(p, u) ==
  /\ Free(p)
  /\ loc' = [loc EXCEPT ![p] = [InitLoc EXCEPT !.op = "history", !.user = u, !.today = now,
                       !.pre = [n |-> Len(answers), stats |-> stats,
                                challenges |-> ChallengesOn(now), shown |-> {},
                     ts |-> NoTs]]]
  /\ pc' = [pc EXCEPT ![p] = "h_query"]
  /\ nreq' = nreq + 1
  /\ UNCHANGED <<now, tierOf, db, selLog, streakLog, judge>>

\* The queryset is evaluated and each row serialized by
\* DailyChallengeHistoryItemSerializer (id, date, country).
HistoryQuery(p) ==
  /\ pc[p] = "h_query"
  /\ loc' = [loc EXCEPT ![p] = Answered(loc[p],
       [status |-> 200,
        results |-> {[id |-> id, date |-> challenges[id].date,
                      country |-> Serialize(CountryRow(challenges[id].country),
                                            CountryListFields)] :
                       id \in {i \in DOMAIN challenges :
                                 InHistory(challenges[i].date, loc[p].today)}}])]
  /\ pc' = [pc EXCEPT ![p] = "done"]
  /\ UNCHANGED <<now, tierOf, db, selLog, streakLog, nreq, judge>>

\* SpecHistory: one worker serves GET /daily/, POST /daily/answer/ and GET
\* /daily/history/ requests one after the other, over several days.
NextHistory ==
  \/ NextSeq
  \/ \E u \in Users : nreq < SeqRequests /\ StartHistory(1, u)
  \/ HistoryQuery(1)

SpecHistory == InitSeq /\ [][NextHistory]_vars

\* ------------------------------------------------------------------------
\* SpecGoct: DailyChallenge.get_or_create_today() called again and again by
\* one caller, over several days.
NextGoct ==
  \/ nreq < MaxCalls /\ StartGoct(1)
  \/ GoctSteps(1)
  \/ SelectSteps(1)
  \/ AdvanceDay(nreq < MaxCalls)

SpecGoct == Init /\ [][NextGoct]_vars

\* ------------------------------------------------------------------------
\* SpecRetier: sequential select_next_country calls on one track, as in
\* SpecSel, while the catalog is maintained: between two calls a Country row
\* is saved with another difficulty_tier.
RetierCountry(c, tier) ==
  /\ pc[1] \in {"idle", "done"}
  /\ tier # tierOf[c]
  /\ tierOf' = [tierOf EXCEPT ![c] = tier]
  /\ UNCHANGED <<now, db, pc, loc, selLog, streakLog, nreq, judge>>

NextRetier ==
  \/ nreq < MaxCalls /\ StartSelect(1)
  \/ SelectSteps(1)
  \/ \E c \in Countries, tier \in {"NULL", "easy", "hard"} : RetierCountry(c, tier)

SpecRetier == InitSel /\ [][NextRetier]_vars

\* ------------------------------------------------------------------------
\* SpecPayload: today's challenge is stored; one worker serves POST
\* /api/v1/daily/answer/ requests with bodies of every shape.
NextPayload ==
  \/ \E u \in Users, kind \in PayloadKinds, text \in SubmitTexts :
       nreq < SubmitRequests /\ StartPostPayload(1, u, kind, text)
  \/ PostSteps(1)

SpecPayload == InitSubmit /\ [][NextPayload]_vars

\* ------------------------------------------------------------------------
\* SpecSelRace: the global track has served k days; the workers call
\* select_next_country on it concurrently, each on the copy of the row it
\* loaded when its call started.
InitSelRace ==
  /\ InitCommon
  /\ judge = NoJudge
  /\ answers = <<>>
  /\ \E k \in 1..NumCountries : Served(k, FirstDay - 1)

NextSelRace ==
  \/ \E p \in Procs : nreq < RaceRequests /\ StartSelect(p)
  \/ \E p \in Procs : SelectSteps(p)

SpecSelRace == InitSelRace /\ [][NextSelRace]_vars

\* ------------------------------------------------------------------------
\* SpecStreak: the POST /api/v1/daily/answer/ that completes today's challenge
\* is served in full against a stored UserStats row of any shape (or none):
\* the user has MAX_DAILY_ATTEMPTS - 1 wrong attempts on today's question and
\* submits the country's name or an empty text, so the view records a correct
\* outcome or a failure (views.py 267-271, 293-304), each statement a step.
\* incorrect_countries: lists of up to two distinct country codes.
CodeLists ==
  {l \in UNION {[1..n -> {CountryCode(c) : c \in Countries}] : n \in 0..2} :
     \A i, j \in DOMAIN l : i # j => l[i] # l[j]}

\* The rows update_daily_streak leaves: no row, a fresh row, or one whose
\* last guess was on a day up to LastDay; the streak is positive exactly when
\* that last guess was correct. lastCorrect is the date of the last correct
\* guess.
StatsRows ==
  {[st |-> NoStats, lastCorrect |-> None],
   [st |-> FreshStats, lastCorrect |-> None]} \cup
  {[st |-> [exists |-> TRUE, total_correct |-> cur, current_streak |-> cur,
            longest_streak |-> longest, last_guess_date |-> g,
            incorrect_countries |-> inc],
    lastCorrect |-> lc] :
     cur \in 0..MaxStreak, longest \in 0..MaxStreak, g \in 1..LastDay,
     lc \in 0..LastDay, inc \in CodeLists}

InitStreak ==
  /\ tierOf = [c \in Countries |-> InitialTier(c)]
  /\ pc = [p \in Procs |-> "idle"]
  /\ loc = [p \in Procs |-> InitLoc]
  /\ selLog = <<>>
  /\ streakLog = <<>>
  /\ nreq = 0
  /\ \E row \in StatsRows, d \in 1..LastDay, c \in Countries :
       /\ row.st.longest_streak >= row.st.current_streak
       /\ row.lastCorrect <= row.st.last_guess_date
       /\ (row.st.current_streak >= 1) <=> (row.lastCorrect = row.st.last_guess_date
                                             /\ row.lastCorrect # None)
       /\ row.st.last_guess_date <= d
       /\ now = d
       /\ stats = [u \in Users |-> row.st]
       /\ judge = [phase |-> "streak", lastCorrect |-> row.lastCorrect]
       /\ tierStates = <<[NewTierRow("default", None, d)
                           EXCEPT !.last_selection_date = d]>>
       /\ shown = {<<1, c>>}
       /\ challenges = <<[date |-> d, country |-> c]>>
       /\ questions = <<[TextQuestion(CountryName(c)) EXCEPT !.country = c]>>
       /\ answers = [i \in 1..(MAX_DAILY_ATTEMPTS - 1) |->
                       [user |-> 1, question |-> 1, text |-> <<>>,
                        is_correct |-> FALSE, attempt_number |-> i]]

NextStreak ==
  \/ \E text \in {CountryName(challenges[1].country), <<>>} :
       nreq = 0 /\ StartPost(1, 1, text)
  \/ PostSteps(1)

SpecStreak == InitStreak /\ [][NextStreak]_vars

\* ------------------------------------------------------------------------
\* SpecStreakSeq: the outcomes of a user's challenges are recorded on a fresh
\* UserStats row, one per day on strictly increasing dates up to LastDay:
\* update_daily_streak and its save(), and after a failure
\* add_incorrect_country and its save().
StreakUpdate(d, is_correct, c) ==
  /\ judge.phase = "off"
  /\ streakLog # <<>> => d > streakLog[Len(streakLog)].date
  /\ stats' = [stats EXCEPT ![1] =
                 UpdateDailyStreak(IF stats[1].exists THEN stats[1] ELSE FreshStats,
                                   is_correct, d)]
  /\ streakLog' = Append(streakLog, [user |-> 1, challenge |-> None,
                                     is_correct |-> is_correct, date |-> d])
  /\ judge' = IF is_correct THEN judge
                            ELSE [phase |-> "missed", code |-> CountryCode(c)]
  /\ UNCHANGED <<now, tierOf, tierStates, shown, challenges, questions, answers,
                 pc, loc, selLog, nreq>>

\* The failure's country is added to the row update_daily_streak has saved.
StreakAddIncorrect ==
  /\ judge.phase = "missed"
  /\ stats' = [stats EXCEPT ![1] = AddIncorrectCountry(stats[1], judge.code)]
  /\ judge' = NoJudge
  /\ UNCHANGED <<now, tierOf, tierStates, shown, challenges, questions, answers,
                 pc, loc, selLog, streakLog, nreq>>

InitStreakSeq ==
  /\ InitCommon
  /\ judge = NoJudge
  /\ answers = <<>>
  /\ Served(0, FirstDay - 1)

NextStreakSeq ==
  \/ \E d \in 1..LastDay, is_correct \in BOOLEAN, c \in Countries :
       StreakUpdate(d, is_correct, c)
  \/ StreakAddIncorrect

SpecStreakSeq == InitStreakSeq /\ [][NextStreakSeq]_vars

\* ------------------------------------------------------------------------
\* SpecStreakRule: update_daily_streak is called on a fresh UserStats row up
\* to MaxOutcomes times, with any outcome and any date up to LastDay, in any
\* order of dates (the same date may come again).
UpdateStreakCall(d, is_correct) ==
  /\ Len(streakLog) < MaxOutcomes
  /\ stats' = [stats EXCEPT ![1] =
                 UpdateDailyStreak(IF stats[1].exists THEN stats[1] ELSE FreshStats,
                                   is_correct, d)]
  /\ streakLog' = Append(streakLog, [user |-> 1, challenge |-> None,
                                     is_correct |-> is_correct, date |-> d])
  /\ UNCHANGED <<now, tierOf, tierStates, shown, challenges, questions, answers,
                 pc, loc, selLog, nreq, judge>>

NextStreakRule ==
  \E d \in 1..LastDay, is_correct \in BOOLEAN : UpdateStreakCall(d, is_correct)

SpecStreakRule == InitStreakSeq /\ [][NextStreakRule]_vars

\* ========================================================================
\* Properties
\* ========================================================================

\* The eligible set of the stored track id.
Eligible(id) == TierCountries(LoadTs(id))

\* C1 (SpecSel): on a track with a non-empty eligible set of n items, the
\* items returned by sequential select_next_country calls are eligible, no
\* item is returned twice within one cycle, each run of n consecutive calls
\* that starts a cycle returns n pairwise distinct items (so every eligible
\* item exactly once), and before an item is returned a second time every
\* eligible item has been returned.
C1_NoRepeatWithinCycle ==
  \A id \in DOMAIN tierStates :
    LET E == Eligible(id)
        n == Cardinality(E)
        calls == {i \in DOMAIN selLog : selLog[i].track = id}
    IN n > 0 =>
         /\ \A i \in calls : selLog[i].country \in E
         /\ \A i, j \in calls :
              i < j /\ selLog[i].cycle = selLog[j].cycle
                => selLog[i].country # selLog[j].country
         /\ \A i, j \in calls :
              i < j /\ (i - 1) \div n = (j - 1) \div n
                => selLog[i].country # selLog[j].country
         /\ \A i, j \in calls :
              i < j /\ selLog[i].country = selLog[j].country
                => \A c \in E : \E k \in calls : k < j /\ selLog[k].country = c

\* C1 witness: a track of at least two items has gone through a full cycle
\* and a reset, and an item has been returned a second time.
C1_Witness ==
  \E id \in DOMAIN tierStates :
    /\ Cardinality(Eligible(id)) >= 2
    /\ \E i, j \in DOMAIN selLog :
         i < j /\ selLog[j].reset /\ selLog[i].country = selLog[j].country

\* C2 (SpecRace): in every reachable state, under any interleaving of
\* get_or_create_today calls, at most one DailyChallenge row is stored for
\* any date.
C2_OneChallengePerDate ==
  /\ \A d \in Days : Cardinality(ChallengesOn(d)) <= 1
  /\ \A i, j \in DOMAIN challenges : challenges[i].date = challenges[j].date => i = j

\* C2 witness: two callers raced for the same date; one row is stored and the
\* other caller's insert was refused.
C2_Witness ==
  \E p \in Procs :
    /\ pc[p] = "done" /\ loc[p].resp.status = 500
    /\ loc[p].resp.at = "g_create"
    /\ Cardinality(ChallengesOn(loc[p].today)) = 1

\* C3 (SpecRace): every get_or_create_today call that got as far as returning
\* or creating the challenge of its date answers without an error, with the
\* single row stored for that date: the loser of the creation race falls back
\* to the existing row.
C3_RacersReturnStoredRow ==
  \A p \in Procs :
    (/\ pc[p] = "done" /\ loc[p].op = "goct"
     /\ (loc[p].resp.status = 200 \/ loc[p].resp.at = "g_create"))
      => /\ loc[p].resp.status = 200
         /\ loc[p].resp.id \in ChallengesOn(loc[p].today)

\* C4 (SpecSeq): for every (user, question), after any sequence of
\* submissions the stored attempt numbers are 1, 2, ..., k in the order of
\* insertion, k is at most 3, and no attempt follows a correct attempt.
C4_AttemptNumbersGapless ==
  \A u \in Users, q \in DOMAIN questions :
    LET idx == AnswersOf(u, q)
    IN /\ \A i \in idx :
            answers[i].attempt_number = Cardinality({j \in idx : j <= i})
       /\ Cardinality(idx) <= MAX_DAILY_ATTEMPTS
       /\ \A i, j \in idx : i < j => ~answers[i].is_correct

\* C4 witness: a user has three stored attempts on a question and a further
\* submission has been rejected.
C4_Witness ==
  /\ \E u \in Users, q \in DOMAIN questions : Cardinality(AnswersOf(u, q)) = 3
  /\ pc[1] = "done" /\ loc[1].op = "post" /\ loc[1].resp.status = 400

\* The attempt a finished, accepted submission stored (sequential use: the
\* last row of the table).
AcceptedPost(p) ==
  pc[p] = "done" /\ loc[p].op = "post" /\ loc[p].resp.status = 200

\* C5 (SpecSeq): the response of an accepted submission contains
\* correct_answer if and only if the submission completes the challenge: the
\* answer just stored is correct, or attempts_remaining is 0 (the user now has
\* 3 attempts on the question).
C5_AnswerRevealedIffCompleted ==
  \A p \in {1} :
    AcceptedPost(p) =>
      LET r == loc[p].resp
          k == Cardinality(AnswersOf(loc[p].user, loc[p].question))
          revealed == "correct_answer" \in DOMAIN r
      IN /\ revealed <=> (r.is_correct \/ r.attempts_remaining = 0)
         /\ revealed <=> (answers[Len(answers)].is_correct \/ k = MAX_DAILY_ATTEMPTS)
         /\ revealed => r.correct_answer = CorrectAnswer(questions[loc[p].question])

\* C5 witness: a third, incorrect attempt was answered with correct_answer.
C5_Witness ==
  /\ AcceptedPost(1)
  /\ ~loc[1].resp.is_correct
  /\ "correct_answer" \in DOMAIN loc[1].resp

\* A response of a submission that does not complete the challenge.
NonCompleting(r) == ~r.is_correct /\ r.attempts_remaining > 0

\* The attempts of the handler's user on its question stored before the
\* request arrived.
PreRows(p) == {i \in AnswersOf(loc[p].user, loc[p].question) : i <= loc[p].pre.n}

\* C6 (SpecJudge): the response to a submission that does not complete the
\* challenge is the response the same submission gets, after the same number
\* of earlier attempts, on a question that differs only in its accepted
\* answer, whenever it completes neither challenge: no field (is_correct,
\* explanation, attempts_remaining) depends on the accepted answer.
C6_NonCompletingResponseHidesAnswer ==
  \A p \in {1} :
    (AcceptedPost(p) /\ NonCompleting(loc[p].resp)) =>
      \A a2 \in {CountryName(c) : c \in 1..2} :
        LET q2 == [questions[loc[p].question] EXCEPT !.answer = a2]
            l2 == [InitLoc EXCEPT !.op = "post", !.payload = "text",
                                  !.text = loc[p].text,
                                  !.attempts_used = Cardinality(PreRows(p))]
            r2 == AnswerResponse(JudgeAttempt(l2, q2), q2)
        IN NonCompleting(r2) => r2 = loc[p].resp

\* The fields of the Country model that present the flag.
FlagPresentationFields == {"flag_emoji", "flag_svg_url", "flag_png_url", "flag_alt_text"}

\* C7 (SpecSeq): for a user who has not completed today's challenge, the GET
\* response has no correct_answer in its question part and no name in its
\* country part, which holds flag presentation fields only.
C7_DailyGetWithholdsAnswer ==
  \A p \in {1} :
    (/\ pc[p] = "done" /\ loc[p].op = "get" /\ loc[p].resp.status = 200
     /\ ~loc[p].resp.user_status.has_completed)
      => /\ "correct_answer" \notin DOMAIN loc[p].resp.question
         /\ "name" \notin DOMAIN loc[p].resp.country
         /\ DOMAIN loc[p].resp.country \subseteq FlagPresentationFields
         /\ DOMAIN loc[p].resp = {"status", "id", "date", "question", "country", "user_status"}

\* C7 witness: a GET answered for a user who has used an attempt and has not
\* completed the challenge.
C7_Witness ==
  /\ pc[1] = "done" /\ loc[1].op = "get" /\ loc[1].resp.status = 200
  /\ ~loc[1].resp.user_status.has_completed
  /\ loc[1].resp.user_status.attempts_used >= 1

FinishedPost(p) == pc[p] = "done" /\ loc[p].op = "post" /\ loc[p].question # None

\* C8 (SpecSeq): a submission by a user who already has 3 attempts on today's
\* question, none correct, is rejected with AttemptsExhausted whatever the
\* answer, stores no attempt and leaves every UserStats row as it was.
C8_ExhaustedRejected ==
  \A p \in {1} :
    (/\ FinishedPost(p)
     /\ Cardinality(PreRows(p)) >= MAX_DAILY_ATTEMPTS
     /\ \A i \in PreRows(p) : ~answers[i].is_correct)
      => /\ loc[p].resp = [status |-> 400, error |-> "AttemptsExhausted"]
         /\ Len(answers) = loc[p].pre.n
         /\ stats = loc[p].pre.stats

\* C8 witness: the rejected fourth submission carried the correct answer.
C8_Witness ==
  /\ FinishedPost(1)
  /\ Cardinality(PreRows(1)) >= MAX_DAILY_ATTEMPTS
  /\ \A i \in PreRows(1) : ~answers[i].is_correct
  /\ ValidateAnswer(questions[loc[1].question], [text |-> JsonStr(loc[1].text)]).is_correct

\* C9 (SpecSeq): a submission by a user who already has a correct attempt on
\* today's question is rejected with AlreadyAnsweredCorrectly, stores no
\* attempt and leaves every UserStats row as it was.
C9_SolvedRejected ==
  \A p \in {1} :
    (FinishedPost(p) /\ \E i \in PreRows(p) : answers[i].is_correct)
      => /\ loc[p].resp = [status |-> 400, error |-> "AlreadyAnsweredCorrectly"]
         /\ Len(answers) = loc[p].pre.n
         /\ stats = loc[p].pre.stats

\* C9 witness: a user who solved the challenge on the second attempt has
\* submitted again.
C9_Witness ==
  /\ FinishedPost(1)
  /\ Cardinality(PreRows(1)) = 2
  /\ \E i \in PreRows(1) : answers[i].is_correct

\* C10 (SpecSubmit): for every (user, challenge) pair update_daily_streak is
\* called at most once, under any interleaving of the user's submissions.
C10_StreakUpdatedAtMostOnce ==
  \A u \in Users, ch \in DOMAIN challenges :
    Cardinality({i \in DOMAIN streakLog :
                   streakLog[i].user = u /\ streakLog[i].challenge = ch}) <= 1

\* C11 (SpecSeq): an accepted submission that does not complete the challenge
\* (incorrect, attempts remain) leaves every UserStats row as it was when the
\* request arrived; one that completes it (correct, or the third attempt) has
\* applied update_daily_streak to the user's row with its outcome.
C11_StatsChangeIffCompleted ==
  \A p \in {1} :
    AcceptedPost(p) =>
      LET r == loc[p].resp
          u == loc[p].user
      IN IF NonCompleting(r)
           THEN /\ stats = loc[p].pre.stats
                /\ \A i \in DOMAIN streakLog :
                     ~(streakLog[i].user = u /\ streakLog[i].challenge = loc[p].challenge)
           ELSE /\ streakLog # <<>>
                /\ streakLog[Len(streakLog)].user = u
                /\ streakLog[Len(streakLog)].challenge = loc[p].challenge
                /\ streakLog[Len(streakLog)].is_correct = r.is_correct
                /\ stats[u].exists
                /\ stats[u].last_guess_date = streakLog[Len(streakLog)].date
                /\ stats[u].current_streak = IF r.is_correct THEN stats[u].current_streak ELSE 0
                /\ r.is_correct => stats[u].total_correct = loc[p].pre.stats[u].total_correct + 1

\* C11 witness: a user with a running streak made a wrong first attempt and the
\* streak is intact.
C11_Witness ==
  /\ AcceptedPost(1)
  /\ NonCompleting(loc[1].resp)
  /\ stats[loc[1].user].current_streak >= 1
  /\ stats = loc[1].pre.stats

\* C12 (SpecStreak): with lastCorrect the date of the last correct guess (or
\* none), a submission that records a correct outcome on lastCorrect + 1
\* increases current_streak by 1; a correct outcome on lastCorrect + 2 or
\* later, or with no correct guess before, sets it to 1; a failure (the last
\* attempt, wrong) sets it to 0 and leaves the country's code in
\* incorrect_countries.
C12_StreakArithmetic ==
  AcceptedPost(1) =>
    LET before == loc[1].pre.stats[1]
        pre == IF before.exists THEN before ELSE FreshStats
        post == stats[1]
        D == judge.lastCorrect
        is_correct == answers[Len(answers)].is_correct
        code == CountryCode(challenges[loc[1].challenge].country)
    IN /\ (is_correct /\ D # None /\ now = D + 1)
            => post.current_streak = pre.current_streak + 1
       /\ (is_correct /\ (D = None \/ now >= D + 2))
            => post.current_streak = 1
       /\ ~is_correct
            => /\ post.current_streak = 0
               /\ InSeq(code, post.incorrect_countries)
               /\ post.total_correct = pre.total_correct
       /\ post.exists
       /\ post.last_guess_date = now

\* C12 witness: a streak of at least 1 was extended by a correct submission
\* on the day after the last correct guess.
C12_Witness ==
  /\ AcceptedPost(1)
  /\ answers[Len(answers)].is_correct
  /\ loc[1].pre.stats[1].current_streak >= 1
  /\ now = judge.lastCorrect + 1
  /\ stats[1].current_streak = loc[1].pre.stats[1].current_streak + 1

\* C13 (SpecSubmit): no two stored UserAnswer rows of the same user on the same
\* question carry the same attempt_number.
C13_AttemptNumbersDistinct ==
  \A i, j \in DOMAIN answers :
    (i # j /\ answers[i].user = answers[j].user
           /\ answers[i].question = answers[j].question)
      => answers[i].attempt_number # answers[j].attempt_number

\* C14 (SpecSubmit): a (user, question) pair never has more than
\* MAX_DAILY_ATTEMPTS UserAnswer rows, and at most one of them is correct.
C14_AttemptRowsBounded ==
  \A u \in Users : \A q \in DOMAIN questions :
    /\ Cardinality(AnswersOf(u, q)) <= MAX_DAILY_ATTEMPTS
    /\ Cardinality({i \in AnswersOf(u, q) : answers[i].is_correct}) <= 1

\* C15 (SpecSel): in sequential use on a track with a non-empty eligible set
\* of n items, a select_next_country call resets the cycle exactly when every
\* eligible item had been shown since the last reset when the call started;
\* cycle_number is 1 plus the number of resets so far; the first n calls do
\* not reset and call n + 1 resets, leaving cycle_number = 2.
C15_ResetExactlyWhenExhausted ==
  \A id \in DOMAIN tierStates :
    LET E == Eligible(id)
        n == Cardinality(E)
        calls == {i \in DOMAIN selLog : selLog[i].track = id}
        ResetsUpTo(i) == Cardinality({k \in calls : k <= i /\ selLog[k].reset})
        ShownBefore(i) ==
          {selLog[j].country :
             j \in {j \in calls : /\ j < i
                                  /\ \A k \in calls : (j < k /\ k < i) => ~selLog[k].reset}}
    IN n > 0 =>
         /\ \A i \in calls :
              /\ selLog[i].reset <=> E \subseteq ShownBefore(i)
              /\ selLog[i].cycle = 1 + ResetsUpTo(i)
              /\ i <= n => ~selLog[i].reset
              /\ i = n + 1 => selLog[i].reset /\ selLog[i].cycle = 2
         /\ pc[1] \in {"idle", "done"}
              => tierStates[id].cycle_number = 1 + ResetsUpTo(Len(selLog))

\* C15 witness: on a track of two or more items the call after the last
\* unshown item reset the cycle and the stored cycle_number is 2.
C15_Witness ==
  \E id \in DOMAIN tierStates :
    LET n == Cardinality(Eligible(id))
    IN /\ n >= 2
       /\ Len(selLog) = n + 1
       /\ selLog[n + 1].reset
       /\ pc[1] = "done"
       /\ tierStates[id].cycle_number = 2

\* Every worker is between calls.
Quiescent == \A p \in Procs : pc[p] \in {"idle", "done"}

\* C16 (SpecSelRace): once the concurrent select_next_country calls on a
\* track have ended, every item returned by a call in the track's current
\* cycle (the highest cycle any call reached) has its TierShownCountry row:
\* no caller's reset has deleted the row another caller recorded in that
\* cycle.
C16_ReturnedItemsStayRecorded ==
  Quiescent =>
    \A i \in DOMAIN selLog :
      LET id == selLog[i].track
      IN (/\ selLog[i].cycle = tierStates[id].cycle_number
          /\ \A j \in DOMAIN selLog :
               selLog[j].track = id => selLog[j].cycle <= tierStates[id].cycle_number)
           => <<id, selLog[i].country>> \in shown

\* C17 (SpecSelRace): a select_next_country call whose TierShownCountry
\* insert loses the uniqueness race to a concurrent caller does not end with
\* that conflict as its failure.
C17_LoserStillReturnsItem ==
  \A p \in Procs :
    (pc[p] = "done" /\ loc[p].op = "select" /\ loc[p].resp.status # 200)
      => loc[p].resp.error # "IntegrityError: tiershowncountry unique"

\* C20 (SpecSelRace): the stored cycle_number of a track is at least 1 and no
\* step of any select_next_country call lowers it.
C20_CycleNumberNeverDecreases ==
  [][\A id \in DOMAIN tierStates :
       /\ tierStates[id].cycle_number >= 1
       /\ tierStates'[id].cycle_number >= tierStates[id].cycle_number]_vars

\* C19 (SpecRace): at most one DifficultyTierState row is stored per
\* (tier, user) pair.
C19_OneTrackPerTierUser ==
  \A i, j \in DOMAIN tierStates :
    (tierStates[i].tier = tierStates[j].tier /\ tierStates[i].user = tierStates[j].user)
      => i = j

\* C18 (SpecSel): on a track whose eligible set is empty, a
\* select_next_country call ends with an error and returns no item, and the
\* calls do not reset the cycle over and over: the track, created with
\* cycle_number 1, has been reset at most once.
C18_EmptyTrackNoRepeatedResets ==
  \A id \in DOMAIN tierStates :
    Eligible(id) = {} =>
      /\ \A i \in DOMAIN selLog : selLog[i].track # id
      /\ (pc[1] = "done" /\ loc[1].op = "select") => loc[1].resp.status # 200
      /\ tierStates[id].cycle_number <= 2

\* Worker p has inserted the challenge ch and has not yet run the
\* create_question() of get_or_create_today.
Creating(p, ch) == pc[p] = "g_question" /\ loc[p].challenge = ch

\* C21 (SpecGet): every stored DailyChallenge whose creating
\* get_or_create_today call has run its create_question() has exactly one
\* Question.
C21_ExactlyOneQuestion ==
  \A ch \in DOMAIN challenges :
    (\A p \in Procs : ~Creating(p, ch)) => Cardinality(QuestionsOf(ch)) = 1

\* C22 (SpecSeq): no step of a daily GET, an answer submission, or the
\* get_or_create_today and select_next_country calls they make removes a
\* stored DailyChallenge or changes its date or country.
C22_ChallengeNeverMutated ==
  [][\A id \in DOMAIN challenges :
       /\ id \in DOMAIN challenges'
       /\ challenges'[id] = challenges[id]]_vars

\* C22 witness: a challenge was created after earlier ones had been stored,
\* and a submission on it has been accepted.
C22_Witness ==
  /\ AcceptedPost(1)
  /\ loc[1].challenge > NumCountries
  /\ loc[1].challenge \in DOMAIN challenges
  /\ challenges[loc[1].challenge].date = loc[1].today

\* C23 (SpecGoct): in sequential use every get_or_create_today call returns a
\* challenge of its date; it returns created = TRUE exactly when no challenge
\* was stored for the date when the call started, and otherwise the stored
\* challenge, which is the only one of the date: the same id and country on
\* every later call.
C23_GoctIdempotent ==
  (pc[1] = "done" /\ loc[1].op = "goct") =>
    LET r == loc[1].resp
        before == loc[1].pre.challenges
    IN /\ r.status = 200
       /\ r.created <=> before = {}
       /\ ~r.created => before = {r.id}
       /\ r.id \in DOMAIN challenges
       /\ challenges[r.id].date = loc[1].today
       /\ ChallengesOn(loc[1].today) = {r.id}

\* C23 witness: a later call on a date returned the challenge an earlier call
\* of this run had created, with created = FALSE.
C23_Witness ==
  /\ pc[1] = "done" /\ loc[1].op = "goct"
  /\ loc[1].resp.status = 200
  /\ ~loc[1].resp.created
  /\ loc[1].resp.id > NumCountries
  /\ nreq >= 2

\* C24 (SpecRetier): the countries with a TierShownCountry row of a track
\* are all in the track's current eligible set, also after a country has
\* left the track's tier.
C24_ShownSubsetOfEligible ==
  \A id \in DOMAIN tierStates : ShownCountryIds(id) \subseteq Eligible(id)

\* C25 (SpecPayload): a submission whose payload has no answer_data, an
\* answer_data that is not an object, or an object without a string 'text'
\* (no 'text', or a 'text' that is not a string) is answered 400, and no
\* UserAnswer row is added and no UserStats row changed.
C25_MalformedPayloadRejected ==
  (pc[1] = "done" /\ loc[1].op = "post"
     /\ loc[1].payload \in {"missing", "not_object", "no_text", "text_not_string"})
    => /\ loc[1].resp.status = 400
       /\ Len(answers) = loc[1].pre.n
       /\ stats = loc[1].pre.stats

\* C26 (SpecValidate): validate_answer judges a text correct exactly when
\* the text, trimmed and then lower-cased, is the lower-cased primary answer
\* or one of the lower-cased alternates; the answer itself, its lower-cased
\* form and either of them between spaces are correct.
C26_TextJudgedByNormalisedEquality ==
  judge.phase = "validate_out" =>
    LET q == judge.q
        norm == LowerStr(StripStr(judge.text))
        accepted == {LowerStr(q.answer)} \cup {LowerStr(alt) : alt \in q.alternates}
    IN /\ judge.result.is_correct <=> norm \in accepted
       /\ judge.text \in {q.answer, LowerStr(q.answer),
                           <<Space>> \o q.answer \o <<Space>>,
                           <<Space>> \o LowerStr(q.answer) \o <<Space>>}
            => judge.result.is_correct

\* C26 witness: a text with surrounding spaces and other capitals than the
\* stored answer was judged correct.
C26_Witness ==
  /\ judge.phase = "validate_out"
  /\ judge.result.is_correct
  /\ judge.text # StripStr(judge.text)
  /\ StripStr(judge.text) # judge.q.answer
  /\ LowerStr(StripStr(judge.text)) = LowerStr(judge.q.answer)

\* C27 (SpecGoct): the Question of a challenge that get_or_create_today has
\* just created holds as alternates the lower-cased catalog alternate
\* spellings and manual overrides of its country, and judges each catalog
\* alternate spelling correct.
C27_QuestionHoldsCatalogAlternates ==
  (pc[1] = "done" /\ loc[1].op = "goct" /\ loc[1].resp.status = 200
     /\ loc[1].resp.created)
    => \A id \in QuestionsOf(loc[1].resp.id) :
         LET c == questions[id].country
         IN /\ questions[id].alternates = GetAlternatesForCountry(c, AltSpellings(c))
            /\ \A alt \in AltSpellings(c) : ValidateAnswer(questions[id], [text |-> JsonStr(alt)]).is_correct

\* The number of consecutive calendar days, ending at the last recorded date,
\* on each of which a correct outcome was recorded.
CorrectRun ==
  LET last == streakLog[Len(streakLog)].date
      CorrectOn(d) == \E i \in DOMAIN streakLog :
                        streakLog[i].date = d /\ streakLog[i].is_correct
  IN Cardinality({k \in 1..Len(streakLog) : \A j \in 0..(k - 1) : CorrectOn(last - j)})

\* C28 (SpecStreakSeq): after any sequence of streak updates on strictly
\* increasing dates from a fresh UserStats, current_streak is the number of
\* consecutive calendar days ending at the last recorded date that each have
\* a correct outcome (0 when the last outcome was a failure).
C28_StreakCountsConsecutiveCorrectDays ==
  streakLog # <<>> =>
    /\ stats[1].current_streak = CorrectRun
    /\ ~streakLog[Len(streakLog)].is_correct => stats[1].current_streak = 0
    /\ stats[1].last_guess_date = streakLog[Len(streakLog)].date

\* C28 witness: after a failure, correct outcomes on two consecutive days
\* gave a streak of 2.
C28_Witness ==
  /\ Len(streakLog) >= 3
  /\ \E i \in DOMAIN streakLog : ~streakLog[i].is_correct
  /\ stats[1].current_streak = 2

\* C29 (SpecHistory): every entry of the history listing is a challenge dated
\* strictly before the request's today; the challenge stored for today is not
\* among them, whatever attempts the user has made.
C29_HistoryExcludesToday ==
  (pc[1] = "done" /\ loc[1].op = "history") =>
    LET r == loc[1].resp
    IN /\ r.status = 200
       /\ \A item \in r.results : item.date < loc[1].today
       /\ \A id \in loc[1].pre.challenges : \A item \in r.results : item.id # id

\* C29 witness: a history listing with past entries, each carrying the
\* country's name, was served while today's challenge was stored and the user
\* had attempts on it.
C29_Witness ==
  /\ pc[1] = "done" /\ loc[1].op = "history"
  /\ loc[1].resp.results # {}
  /\ \A item \in loc[1].resp.results : "name" \in DOMAIN item.country
  /\ \E ch \in loc[1].pre.challenges : \E q \in QuestionsOf(ch) :
       AnswersOf(loc[1].user, q) # {}

\* C30 (SpecStreakSeq): no country code occurs twice in incorrect_countries,
\* adding a code that is present leaves the row unchanged, and adding any
\* code twice gives what adding it once gives.
C30_MissedCodesAreASet ==
  \A u \in Users :
    LET st == stats[u]
        codes == st.incorrect_countries
    IN /\ \A i, j \in DOMAIN codes : codes[i] = codes[j] => i = j
       /\ \A i \in DOMAIN codes : AddIncorrectCountry(st, codes[i]) = st
       /\ \A c \in Countries :
            AddIncorrectCountry(AddIncorrectCountry(st, CountryCode(c)), CountryCode(c))
              = AddIncorrectCountry(st, CountryCode(c))

\* C30 witness: two failures have been recorded and incorrect_countries
\* holds one code: the second failure was on the country of the first.
C30_Witness ==
  /\ Cardinality({i \in DOMAIN streakLog : ~streakLog[i].is_correct}) = 2
  /\ Len(stats[1].incorrect_countries) = 1

\* C31 (SpecSel): in sequential use, after a select_next_country call that
\* reset the cycle the track has exactly one shown row, that of the item just
\* returned; after a call that did not reset, the shown set is the shown set
\* at the start of the call plus the returned item; and no step other than
\* the reset's delete removes a shown row, which removes all rows of the
\* track.
C31_ShownRowsOnlyClearedByReset ==
  /\ [](\A p \in {1} :
          (pc[p] = "done" /\ loc[p].op = "select" /\ loc[p].resp.status = 200) =>
            LET last == selLog[Len(selLog)]
            IN IF last.reset
                 THEN ShownCountryIds(last.track) = {last.country}
                 ELSE /\ last.country \notin loc[p].pre.shown
                      /\ ShownCountryIds(last.track) = loc[p].pre.shown \cup {last.country})
  /\ [][shown \ shown' # {} =>
          /\ pc[1] = "s_delete"
          /\ \A r \in shown' : r[1] # loc[1].ts.id]_vars

\* C31 witness: a call on a track of two or more items reset the cycle and
\* left the one row of the item it returned.
C31_Witness ==
  /\ pc[1] = "done" /\ loc[1].op = "select" /\ loc[1].resp.status = 200
  /\ selLog[Len(selLog)].reset
  /\ Cardinality(loc[1].pre.shown) >= 2
  /\ ShownCountryIds(selLog[Len(selLog)].track) = {selLog[Len(selLog)].country}

\* C32 (SpecSeq): the attempts_remaining of an accepted submission's response
\* is 3 minus the attempt_number of the attempt just stored and is not
\* negative: 2 after the first attempt, 0 after the third.
C32_AttemptsRemainingFromAttemptNumber ==
  \A p \in {1} :
    AcceptedPost(p) =>
      LET r == loc[p].resp
          row == answers[Len(answers)]
      IN /\ Len(answers) = loc[p].pre.n + 1
         /\ row.user = loc[p].user /\ row.question = loc[p].question
         /\ r.attempts_remaining = MAX_DAILY_ATTEMPTS - row.attempt_number
         /\ r.attempts_remaining >= 0
         /\ row.attempt_number = 1 => r.attempts_remaining = 2
         /\ row.attempt_number = 3 => r.attempts_remaining = 0

\* C32 witness: a third attempt was accepted and answered with
\* attempts_remaining = 0.
C32_Witness ==
  /\ AcceptedPost(1)
  /\ answers[Len(answers)].attempt_number = 3
  /\ loc[1].resp.attempts_remaining = 0

\* C33 (SpecSeq): in the response of GET /daily/, user_status.has_completed
\* is true exactly when the submission view would reject a submission of the
\* same user on the stored rows (a correct attempt exists, or 3 attempts
\* exist); user_status.is_correct is true iff a correct attempt exists, false
\* iff 3 attempts exist and none is correct, and null otherwise.
C33_StatusMatchesSubmissionGate ==
  \A p \in {1} :
    (pc[p] = "done" /\ loc[p].op = "get" /\ loc[p].resp.status = 200) =>
      LET us == loc[p].resp.user_status
          u == loc[p].user
          q == loc[p].question
          n == Cardinality(AnswersOf(u, q))
          rejected == HasCorrect(u, q) \/ AttemptsExhausted(n)
      IN /\ us.has_completed <=> rejected
         /\ us.is_correct = "True" <=> HasCorrect(u, q)
         /\ us.is_correct = "False" <=> (n >= 3 /\ ~HasCorrect(u, q))
         /\ us.is_correct = "None" <=> (n < 3 /\ ~HasCorrect(u, q))

\* C33 witness: a GET after three wrong attempts reports the challenge
\* completed with is_correct false.
C33_Witness ==
  /\ pc[1] = "done" /\ loc[1].op = "get" /\ loc[1].resp.status = 200
  /\ loc[1].resp.user_status.has_completed
  /\ loc[1].resp.user_status.is_correct = "False"
  /\ Cardinality(AnswersOf(loc[1].user, loc[1].question)) = 3

\* C34 (SpecGoct): a get_or_create_today call that starts when a challenge
\* of its date is stored returns that challenge with created = FALSE, and no
\* step of the call changes a stored row: the tracks (cycle_number,
\* last_selection_date), the TierShownCountry rows, the DailyChallenge rows
\* and the Question rows stay as they were, and no selection is made.
C34_FoundChallengeChangesNothing ==
  /\ []((pc[1] = "done" /\ loc[1].op = "goct" /\ loc[1].pre.challenges # {}) =>
          /\ loc[1].resp.status = 200
          /\ ~loc[1].resp.created
          /\ loc[1].resp.id \in loc[1].pre.challenges)
  /\ [][(pc[1] \notin {"idle", "done"} /\ loc[1].op = "goct"
           /\ loc[1].pre.challenges # {}) =>
            /\ db' = db
            /\ selLog' = selLog
            /\ pc'[1] \in {"g_lookup", "done"}]_vars

\* C34 witness: a call has returned the stored challenge of its date while
\* the default track holds shown rows.
C34_Witness ==
  /\ pc[1] = "done" /\ loc[1].op = "goct"
  /\ loc[1].pre.challenges # {}
  /\ ~loc[1].resp.created
  /\ DefaultTracks # {}
  /\ \E id \in DefaultTracks : ShownCountryIds(id) # {}

\* C35 (SpecSel): a select_next_country call that fails on a track whose
\* eligible set is empty leaves the stored track as it was when the call
\* started: the same cycle_number, cycle_start_date and last_selection_date,
\* and the same TierShownCountry rows.
C35_FailedSelectionChangesNothing ==
  \A p \in {1} :
    (/\ pc[p] = "done" /\ loc[p].op = "select"
     /\ loc[p].resp.status # 200
     /\ Eligible(loc[p].pre.ts.id) = {}) =>
      LET id == loc[p].pre.ts.id
      IN /\ tierStates[id].cycle_number = loc[p].pre.ts.cycle_number
         /\ tierStates[id].cycle_start_date = loc[p].pre.ts.cycle_start_date
         /\ tierStates[id].last_selection_date = loc[p].pre.ts.last_selection_date
         /\ ShownCountryIds(id) = loc[p].pre.shown

\* C36 (SpecStreakRule): over every sequence of outcomes with non-decreasing
\* dates, each update_daily_streak call, which compares the new date with
\* last_guess_date (moved by failures too), leaves the current_streak,
\* longest_streak and total_correct that the rule comparing with
\* lastCorrectDate (the date of the latest correct outcome, None if there is
\* none) yields from the same values; both start from the fresh row, so the
\* two rules agree after every outcome of the sequence.
C36_StreakRuleMatchesLastCorrectDate ==
  [][LET old == IF stats[1].exists THEN stats[1] ELSE FreshStats
         new == streakLog'[Len(streakLog')]
         corrects == {i \in DOMAIN streakLog : streakLog[i].is_correct}
         lastCorrectDate ==
           IF corrects = {} THEN None
           ELSE streakLog[CHOOSE i \in corrects : \A j \in corrects : j <= i].date
         cur == IF lastCorrectDate # None /\ lastCorrectDate = new.date - 1
                  THEN old.current_streak + 1
                  ELSE 1
     IN (/\ Len(streakLog') = Len(streakLog) + 1
         /\ \A i \in 1..Len(streakLog) : streakLog'[i].date <= streakLog'[i + 1].date) =>
          IF new.is_correct
            THEN /\ stats'[1].current_streak = cur
                 /\ stats'[1].longest_streak = Max(old.longest_streak, cur)
                 /\ stats'[1].total_correct = old.total_correct + 1
            ELSE /\ stats'[1].current_streak = 0
                 /\ stats'[1].longest_streak = old.longest_streak
                 /\ stats'[1].total_correct = old.total_correct]_vars

\* C36 witness: a correct outcome, a failure on a later day, and a correct
\* outcome the day after the failure: last_guess_date is the day before the
\* new date and lastCorrectDate is not, and the streak is 1.
C36_Witness ==
  /\ Len(streakLog) = 3
  /\ streakLog[1].is_correct /\ ~streakLog[2].is_correct /\ streakLog[3].is_correct
  /\ streakLog[1].date < streakLog[2].date
  /\ streakLog[3].date = streakLog[2].date + 1
  /\ stats[1].current_streak = 1
  /\ stats[1].total_correct = 2

\* C37 (SpecStreakRule): on a fresh UserStats row changed only by
\* update_daily_streak, always 0 <= current_streak <= longest_streak <=
\* total_correct; no call lowers longest_streak, and a failure sets
\* current_streak to 0 and leaves longest_streak as it was.
C37_StreakOrderingAndLongestMonotone ==
  /\ [](/\ 0 <= stats[1].current_streak
        /\ stats[1].current_streak <= stats[1].longest_streak
        /\ stats[1].longest_streak <= stats[1].total_correct)
  /\ [][/\ stats'[1].longest_streak >= stats[1].longest_streak
        /\ (Len(streakLog') = Len(streakLog) + 1
            /\ ~streakLog'[Len(streakLog')].is_correct) =>
              (/\ stats'[1].current_streak = 0
               /\ stats'[1].longest_streak = stats[1].longest_streak)]_vars

\* C37 witness: after a streak of 2, a failure has reset current_streak and
\* longest_streak is still 2.
C37_Witness ==
  /\ Len(streakLog) = 3
  /\ ~streakLog[3].is_correct
  /\ stats[1].current_streak = 0
  /\ stats[1].longest_streak = 2
  /\ stats[1].total_correct = 2

\* C38 (SpecSeq): the guess_date of every streak update made for a
\* completing attempt is the date of the DailyChallenge the attempt was
\* judged against, also when midnight passes between the lookup of the
\* challenge and the update of the stats.
C38_StreakDateIsChallengeDate ==
  \A i \in DOMAIN streakLog :
    streakLog[i].challenge \in DOMAIN challenges =>
      streakLog[i].date = challenges[streakLog[i].challenge].date

\* C39 (SpecSubmit): whenever no submission is in progress, each user's
\* total_correct is the number of questions on which the user has a correct
\* attempt, and every country code in incorrect_countries belongs to a
\* question on which the user has 3 incorrect attempts.
C39_StatsMatchStoredAttempts ==
  Quiescent =>
    \A u \in Users :
      /\ stats[u].total_correct =
           Cardinality({q \in DOMAIN questions : HasCorrect(u, q)})
      /\ \A k \in DOMAIN stats[u].incorrect_countries :
           \E q \in DOMAIN questions :
             /\ CountryCode(questions[q].country) = stats[u].incorrect_countries[k]
             /\ Cardinality({i \in AnswersOf(u, q) : ~answers[i].is_correct}) >= 3

====
